---- MODULE Spec2Model ----
(***************************************************************************)
(* Paper-trading engine of polymarket_mvp: the ledger (sim/paper.py), the  *)
(* persisted state and event log (utils/storage.py), the scheduler         *)
(* (loop.py) and the trade loop of run_once (main.py).                     *)
(*                                                                         *)
(* Numbers are fixed point: money in cents, prices, probabilities and      *)
(* edges in thousandths (the default tick_size is 0.001), quantities in    *)
(* thousandths of a cent-share, times in whole seconds.                    *)
(***************************************************************************)
EXTENDS Integers, Sequences, FiniteSets, TLC

\* ------------------------------------------------------------------ bounds
StartingCash == 100000
MaxLedgerOps == 4
LedgerSizes == {0, 20000, 200000}
LedgerPrices == {0, 250, 500, 1000}
LedgerFractions == {0, 50, 150}
MaxCycles == 6
ShortCycles == 5
MaxMsgs == 2
MaxFetch == 2
MaxAppends == 2
MaxStreamErrors == 3
MaxLoopCycles == 4
MaxCloses == 4
MaxLoopMsgs == 3
MaxPendingPasses == 2
GuardStep == 10
MaxDuration == 3
\* app.loop_seconds, tenths of a second
LoopSeconds == 3
\* app.min_cycle_seconds (default 0.2), tenths of a second
MinCycle == 2
MaxErrors == 1
MaxRestarts == 1
T0 == 1000
MarketLife == 1500

\* ------------------------------------------------------ values and helpers
Markets == {"m1", "m2"}
Sides == {"BUY_YES", "BUY_NO"}
None == -999999

Min2(a, b) == IF a <= b THEN a ELSE b
Max2(a, b) == IF a >= b THEN a ELSE b

RECURSIVE SumSize(_)
SumSize(ps) == IF ps = <<>> THEN 0 ELSE Head(ps).size_usd + SumSize(Tail(ps))

\* ------------------------------------------------ what the feeds can deliver
\* a row of btc_rows as the trade loop reads it (main.py:1181-1204): model_side, model_confidence,
\* model_consensus, p_yes_model, p_hit_target, the best asks and bids, the winner side
\* (btc_current >= btc_target), best_model, and whether btc_target is known (main.py:952)
TrendYes == [side |-> "BUY_YES", conf |-> 65, cons |-> 5, p_yes |-> 600, p_hit |-> 500,
             ask_yes |-> 520, bid_yes |-> 510, ask_no |-> 500, bid_no |-> 490,
             winner |-> "BUY_YES", best |-> "TA", target |-> TRUE]
WrongWayYes == [TrendYes EXCEPT !.p_yes = 400, !.ask_yes = 500, !.bid_yes = 490, !.ask_no = 550, !.bid_no = 540]
FlipStopYes == [TrendYes EXCEPT !.side = "BUY_NO", !.p_yes = 480, !.ask_yes = 450, !.bid_yes = 440,
                                !.ask_no = 560, !.bid_no = 550]
Tp35Yes == [TrendYes EXCEPT !.p_yes = 850, !.ask_yes = 720, !.bid_yes = 710, !.ask_no = 290, !.bid_no = 280]
Tp50Yes == [TrendYes EXCEPT !.p_yes = 900, !.ask_yes = 800, !.bid_yes = 790, !.ask_no = 210, !.bid_no = 200]
Tp50WideYes == [Tp50Yes EXCEPT !.bid_yes = 700]
\* a likely hit (p_hit_target 0.70) with a same-side edge of 0.035
RelaxedYes == [TrendYes EXCEPT !.p_yes = 555, !.p_hit = 700]
TrailYes == [TrendYes EXCEPT !.p_yes = 570, !.ask_yes = 560, !.bid_yes = 550, !.ask_no = 450, !.bid_no = 440]
TrendNo == [TrendYes EXCEPT !.side = "BUY_NO", !.p_yes = 400, !.ask_yes = 500, !.bid_yes = 490,
                            !.ask_no = 520, !.bid_no = 510, !.winner = "BUY_NO"]
ResolvedYes == [TrendYes EXCEPT !.p_yes = 985, !.ask_yes = 990, !.bid_yes = 985, !.ask_no = 10, !.bid_no = 5]
ReversalNo == [TrendNo EXCEPT !.winner = "BUY_YES", !.p_hit = 400]
\* the target of the market is not known in the cycle: btc_target is None
NoTargetNo == [ReversalNo EXCEPT !.target = FALSE]

MarketEnd == [m \in Markets |-> T0 + MarketLife]

\* ------------------------------------------- configuration read by run_once
base_reentry_cooldown_s == 120
flip_reentry_cooldown_s == 240
min_hold_for_flip_exit_s == 20
flip_signal_conf_min == 62
flip_stop_loss_pct == -120
buy_no_flip_stop_loss_pct == -100
global_flip_stop_window_seconds == 1200
global_flip_stop_trigger_count == 2
normal_open_min_winner_stability == 12
normal_open_buy_yes_min_winner_stability == 30
normal_open_max_opposing_impulse_bps == 3
buy_yes_conf_floor == 52
buy_yes_consensus_floor == 4
buy_yes_reentry_cooldown_mult == 120
buy_no_conf_floor == 52
buy_no_consensus_floor == 4
buy_no_reentry_cooldown_mult == 135
scalp_min_impulse_bps == 9
trade_cap == 10000
max_trade_cash_fraction == 10
tick_size == 1
open_limit_improve_ticks == 1
close_limit_improve_ticks == 1
close_limit_timeout_s == 20
close_limit_reprice_s == 4
close_force_taker_reasons == {"hard_stop_25", "resolved_loss_proxy", "flip_stop"}
HistMax == 12

\* the keys the configurations of the model differ in; DefaultCfg holds the defaults of run_once
DefaultCfg == [max_open_positions |-> 2, flip_stop_loss_lock_seconds |-> 480,
               global_flip_stop_pause_seconds |-> 0, close_mode |-> "limit_first",
               starting_cash_usd |-> StartingCash, live_enabled |-> FALSE]
BrakeCfg == [max_open_positions |-> 1, flip_stop_loss_lock_seconds |-> 480,
             global_flip_stop_pause_seconds |-> 900, close_mode |-> "market",
             starting_cash_usd |-> StartingCash, live_enabled |-> FALSE]
NoLockCfg == [BrakeCfg EXCEPT !.flip_stop_loss_lock_seconds = 0]
\* paper.starting_cash_usd of 5 dollars
LowCashCfg == [DefaultCfg EXCEPT !.starting_cash_usd = 500]
\* paper.starting_cash_usd of 500 dollars
HalfCashCfg == [DefaultCfg EXCEPT !.starting_cash_usd = 50000]
\* app.mode live with live.enabled (main.py:1137)
LiveCfg == [DefaultCfg EXCEPT !.live_enabled = TRUE]
LiveMarketCfg == [LiveCfg EXCEPT !.close_mode = "market"]

VARIABLES
    state,      \* RunState the running code works on (cash_usd, positions, closed_positions, realized_pnl_usd)
    clock,      \* wall clock, seconds
    ret,        \* outcome of the last ledger call: [op, err, pnl]
    nops,       \* number of ledger calls made (bounded)
    closeLoss,  \* history: sum over all closes of (close_notional - proceeds)
    disk,       \* state.json
    events,     \* events.jsonl: the paper_trade and loop_error records, in order
    cfg,        \* the configuration document
    attrs,      \* what assigning an attribute PaperPosition does not declare does: "reject" or "drop"
    pc,         \* "idle" between cycles, "loop" inside the trade loop of run_once
    todo,       \* btc_rows still to be visited in this cycle
    open_map,   \* keys of open_map
    impulse,    \* _impulse_signal of this cycle
    last_close, \* _LAST_CLOSE_TS / _REASON / _SIDE / _PNL per market
    flip_fail_streak,       \* _FLIP_FAIL_STREAK
    market_lock_until,      \* _MARKET_LOCK_UNTIL
    global_open_pause_until,    \* _GLOBAL_OPEN_PAUSE_UNTIL
    recent_flip_stop_loss_ts,   \* _RECENT_FLIP_STOP_LOSS_TS
    edge_hist,  \* _EDGE_HIST
    winner_hist,    \* _WINNER_HIST
    pending_closes, \* _PENDING_CLOSES
    model_stats,    \* _MODEL_STATS
    ncycles,    \* cycles started (bounded)
    nerrors,    \* cycles ended by an exception (bounded)
    nrestarts,  \* process restarts (bounded)
    last_open_rec,  \* history: what the latest OPEN saw
    last_close_rec, \* history: what the latest pass of the close policy saw and did
    feed,       \* which of Feeds the run follows
    lifetime,   \* history: per market, the largest held edge seen and tp_35_half taken since the open,
                \* and since when every pass over the position decided a full close (None: the last did not)
    last_row_rec,   \* history: what the latest row visited without a position saw and did
    ws_best,    \* ClobWsHook._best: per asset the stored bid and ask (0: none stored)
    snap,       \* the MarketSnapshot of the cycle (NoSnap: none)
    row_by_market,  \* row_by_market entry of the market in this cycle (NoRow: none)
    decided,    \* history: the prices the decisions of the cycle read (NoRow: none yet)
    bpc,        \* where the cycle is between fetching the books and its decisions
    nmsgs,      \* BookFeed messages handled (bounded)
    nfetch,     \* cycles that fetched books (bounded)
    late_msgs,  \* history: BookFeed messages handled since the rows of the cycle were built
    log,        \* events.jsonl as the writes that reached it, in file order
    wpc,        \* per writer thread of the event log: position inside append_event
    wn,         \* per writer thread: append_event calls made
    fpc,        \* per stream worker: position in _run_async
    sent,       \* per stream worker: what the subscription sent on the current connection names
    known,      \* per stream worker: the asset ids subscribed when the current connection was made
    asset_ids,  \* ClobWsHook._asset_ids
    slept,      \* per stream worker: length of its last sleep after a stream error, tenths of a second
    handled,    \* per stream worker: messages handled on the current connection
    nfail,      \* stream errors so far
    needs_subscribe,    \* ClobWsHook._needs_subscribe
    payload,    \* BookFeed worker inside _send_subscribe: the assets it read and has yet to send
    lpc,        \* run_forever: position in the scheduler loop
    now,        \* time.time(), tenths of a second
    cycle_start,\* run_forever: cycle_start of the current cycle
    prev_start, \* history: cycle_start of the cycle before (-1: none)
    ncyc,       \* cycles started by run_forever
    loop_errors,\* loop_error events appended by run_forever
    event_driven,\* app.event_driven and data.use_clob_ws
    raised,     \* whether run_once of the current cycle raised
    last_ws_ts, \* run_forever: last_ws_ts, as the number of the message that stamped it
    last_msg_ts,\* ClobWsHook._last_msg_ts, as the number of the message that stamped it (0: none)
    unserved,   \* history: a message was handled since the latest cycle started
    forecast,   \* what _model_compare returned last (NoForecast: not called yet)
    mon_pos,    \* the followed market: "none", "open" (a position is open on it) or "closed"
    mon_phase,  \* the clock against the market's end: "early" (t_left >= 45 s), "last45", "ended"
    mon_pending,\* passes that left the position's entry in _PENDING_CLOSES waiting (0: no entry)
    mon_seen,   \* history: a cycle ran since the phase began
    mon_cycle,  \* history: parity of the cycles run
    mon_fate    \* history: what the latest cycle did with the market

ledgerVars == <<state, clock, ret, nops, closeLoss>>
memVars == <<last_close, flip_fail_streak, market_lock_until, global_open_pause_until,
             recent_flip_stop_loss_ts, edge_hist, winner_hist, pending_closes, model_stats>>
cycleVars == <<disk, events, cfg, attrs, feed, pc, todo, open_map, impulse, ncycles, nerrors, nrestarts,
               last_open_rec, last_close_rec, lifetime, last_row_rec>>
bookVars == <<ws_best, snap, row_by_market, decided, bpc, nmsgs, nfetch, late_msgs>>
logVars == <<log, wpc, wn>>
feedVars == <<fpc, sent, known, asset_ids, slept, handled, nfail, needs_subscribe, payload>>
loopVars == <<lpc, now, cycle_start, prev_start, ncyc, loop_errors, event_driven, raised,
              last_ws_ts, last_msg_ts, unserved>>
forecastVars == <<forecast>>
monitorVars == <<mon_pos, mon_phase, mon_pending, mon_seen, mon_cycle, mon_fate>>
restVars == <<forecastVars, monitorVars>>
auxVars == <<bookVars, logVars, feedVars, loopVars, restVars>>
baseVars == <<ledgerVars, memVars, cycleVars>>
vars == <<ledgerVars, memVars, cycleVars, auxVars>>

\* the assets of the market the book model follows (main.py:677)
Assets == {"yes_token", "no_token"}
NoBest == [bid |-> 0, ask |-> 0]
NoSnap == [yes_bid |-> 0, yes_ask |-> 0, no_bid |-> 0, no_ask |-> 0]
\* main.py:848-861: the prices of a row_by_market entry
RowOf(s) == [best_bid_yes |-> s.yes_bid, best_bid_no |-> s.no_bid,
             best_ask_yes |-> s.yes_ask, best_ask_no |-> s.no_ask]
NoRow == RowOf(NoSnap)
\* no forecast made yet
NoForecast == [probs |-> <<>>, weights |-> <<>>, p_yes_num |-> 0, p_yes_den |-> 1, best |-> "-", side |-> "",
               confidence |-> 0, consensus |-> 0]
\* the hooks and the cycle before anything ran
\* the threads that call append_event: run_once and run_forever, the BookFeed tick callback,
\* the SpotFeed tick callback
Writers == {"cycle", "ws_tick", "spot_tick"}
\* the stream workers: ClobWsHook._run_async and BtcRtdsHook._run_async
Workers == {"book", "spot"}
AuxInit ==
    /\ ws_best = [a \in Assets |-> NoBest]
    /\ snap = NoSnap
    /\ row_by_market = NoRow
    /\ decided = NoRow
    /\ bpc = "idle"
    /\ nmsgs = 0
    /\ nfetch = 0
    /\ late_msgs = 0
    /\ log = <<>>
    /\ wpc = [w \in Writers |-> "idle"]
    /\ wn = [w \in Writers |-> 0]
    /\ fpc = [w \in Workers |-> "connect"]
    /\ sent = [w \in Workers |-> {}]
    /\ known = [w \in Workers |-> {}]
    /\ asset_ids = {}
    /\ slept = [w \in Workers |-> 0]
    /\ handled = [w \in Workers |-> 0]
    /\ nfail = 0
    /\ needs_subscribe = FALSE
    /\ payload = {}
    /\ lpc = "init"
    /\ now = 0
    /\ cycle_start = 0
    /\ prev_start = -1
    /\ ncyc = 0
    /\ loop_errors = 0
    /\ event_driven = FALSE
    /\ raised = FALSE
    /\ last_ws_ts = 0
    /\ last_msg_ts = 0
    /\ unserved = FALSE
    /\ forecast = NoForecast
    /\ mon_pos = "none"
    /\ mon_phase = "early"
    /\ mon_pending = 0
    /\ mon_seen = FALSE
    /\ mon_cycle = 0
    /\ mon_fate = ""

\* ------------------------------------------------ the runs the model follows
\* a feed fixes the configuration document, what assigning an undeclared attribute does, and
\* what the adapters deliver: the rows a market can show, the order of btc_rows, the impulse
\* and the time a cycle and its sleep take
NoImpulse == [side |-> "", bps_3s |-> 0]
DownImpulse == [side |-> "BUY_NO", bps_3s |-> -10]
\* an impulse _impulse_signal gives a side (|bps_3s| >= 7) that is below the scalp threshold
WeakDownImpulse == [side |-> "BUY_NO", bps_3s |-> -8]
Feeds ==
    [wrong_way |-> [cfg |-> BrakeCfg, cycles |-> MaxCycles, errors |-> 0, restarts |-> 0, attrs |-> "drop", orders |-> {<<"m1">>},
                    m1 |-> {TrendYes, WrongWayYes}, m2 |-> {TrendYes},
                    deltas |-> {20, 440}, impulses |-> {NoImpulse}],
     two_markets |-> [cfg |-> BrakeCfg, cycles |-> ShortCycles, errors |-> 0, restarts |-> 0, attrs |-> "drop", orders |-> {<<"m1", "m2">>},
                      m1 |-> {TrendYes, FlipStopYes}, m2 |-> {TrendYes, FlipStopYes},
                      deltas |-> {20}, impulses |-> {NoImpulse}],
     reentry |-> [cfg |-> DefaultCfg, cycles |-> ShortCycles, errors |-> MaxErrors, restarts |-> MaxRestarts, attrs |-> "drop", orders |-> {<<"m1">>},
                  m1 |-> {TrendNo, ResolvedYes, ReversalNo}, m2 |-> {TrendYes},
                  deltas |-> {200}, impulses |-> {NoImpulse}],
     take_profit |-> [cfg |-> DefaultCfg, cycles |-> ShortCycles, errors |-> 0, restarts |-> 0, attrs |-> "drop", orders |-> {<<"m1">>},
                      m1 |-> {TrendYes, Tp35Yes, Tp50Yes, TrailYes}, m2 |-> {TrendYes},
                      deltas |-> {20}, impulses |-> {NoImpulse}],
     no_lock |-> [cfg |-> NoLockCfg, cycles |-> MaxCycles, errors |-> 0, restarts |-> 0, attrs |-> "drop", orders |-> {<<"m1">>},
                  m1 |-> {TrendYes, FlipStopYes}, m2 |-> {TrendYes},
                  deltas |-> {20, 440}, impulses |-> {NoImpulse}],
     scalp |-> [cfg |-> BrakeCfg, cycles |-> ShortCycles, errors |-> MaxErrors, restarts |-> MaxRestarts, attrs |-> "drop", orders |-> {<<"m1">>},
                m1 |-> {TrendNo, Tp50Yes}, m2 |-> {TrendYes},
                deltas |-> {700}, impulses |-> {NoImpulse, DownImpulse}],
     strict |-> [cfg |-> DefaultCfg, cycles |-> ShortCycles, errors |-> MaxErrors, restarts |-> MaxRestarts, attrs |-> "reject", orders |-> {<<>>, <<"m1">>},
                 m1 |-> {TrendYes}, m2 |-> {TrendYes},
                 deltas |-> {20}, impulses |-> {NoImpulse}],
     ladder |-> [cfg |-> DefaultCfg, cycles |-> MaxCycles, errors |-> 0, restarts |-> 0, attrs |-> "drop", orders |-> {<<"m1">>},
                 m1 |-> {TrendYes, Tp50Yes, FlipStopYes}, m2 |-> {TrendYes},
                 deltas |-> {10}, impulses |-> {NoImpulse}],
     trend |-> [cfg |-> DefaultCfg, cycles |-> ShortCycles, errors |-> MaxErrors, restarts |-> MaxRestarts, attrs |-> "drop", orders |-> {<<"m1">>},
                m1 |-> {TrendYes, ResolvedYes}, m2 |-> {TrendYes},
                deltas |-> {20}, impulses |-> {NoImpulse}],
     expiry |-> [cfg |-> BrakeCfg, cycles |-> MaxCycles, errors |-> 0, restarts |-> 0, attrs |-> "drop", orders |-> {<<"m1">>},
                 m1 |-> {TrendYes, Tp35Yes}, m2 |-> {TrendYes},
                 deltas |-> {20, 700}, impulses |-> {NoImpulse}],
     late_scalp |-> [cfg |-> BrakeCfg, cycles |-> ShortCycles, errors |-> MaxErrors, restarts |-> MaxRestarts, attrs |-> "drop", orders |-> {<<"m1">>},
                     m1 |-> {ReversalNo, NoTargetNo}, m2 |-> {TrendYes},
                     deltas |-> {700}, impulses |-> {NoImpulse, WeakDownImpulse, DownImpulse}],
     low_cash |-> [cfg |-> LowCashCfg, cycles |-> ShortCycles, errors |-> MaxErrors, restarts |-> MaxRestarts, attrs |-> "drop", orders |-> {<<"m1">>},
                   m1 |-> {TrendYes}, m2 |-> {TrendYes},
                   deltas |-> {20}, impulses |-> {NoImpulse}],
     half_cash |-> [cfg |-> HalfCashCfg, cycles |-> ShortCycles, errors |-> MaxErrors, restarts |-> MaxRestarts, attrs |-> "drop", orders |-> {<<"m1">>},
                    m1 |-> {TrendYes}, m2 |-> {TrendYes},
                    deltas |-> {20}, impulses |-> {NoImpulse}],
     live |-> [cfg |-> LiveCfg, cycles |-> ShortCycles, errors |-> MaxErrors, restarts |-> MaxRestarts, attrs |-> "drop", orders |-> {<<"m1">>},
               m1 |-> {TrendYes, Tp50Yes}, m2 |-> {TrendYes},
               deltas |-> {20}, impulses |-> {NoImpulse}],
     live_partial |-> [cfg |-> LiveMarketCfg, cycles |-> ShortCycles, errors |-> MaxErrors, restarts |-> MaxRestarts, attrs |-> "drop", orders |-> {<<"m1">>},
                       m1 |-> {TrendYes, Tp35Yes}, m2 |-> {TrendYes},
                       deltas |-> {20}, impulses |-> {NoImpulse}],
     reprice |-> [cfg |-> DefaultCfg, cycles |-> ShortCycles, errors |-> MaxErrors, restarts |-> 0, attrs |-> "drop", orders |-> {<<"m1">>},
                  m1 |-> {TrendYes, Tp50Yes, Tp50WideYes}, m2 |-> {TrendYes},
                  deltas |-> {5}, impulses |-> {NoImpulse}],
     relaxed |-> [cfg |-> DefaultCfg, cycles |-> ShortCycles, errors |-> MaxErrors, restarts |-> 0, attrs |-> "drop", orders |-> {<<"m1">>},
                  m1 |-> {RelaxedYes}, m2 |-> {TrendYes},
                  deltas |-> {20}, impulses |-> {NoImpulse}]]
\* what the venue does with an order LiveExecutor.place submits (live.py:99-124)
Venue == IF Feeds[feed].cfg.live_enabled THEN {"ok", "post_order_failed"} ELSE {"ok"}
\* main.py:939-949: once a target was known for a market, _BTC_TARGET_CACHE keeps it known; the
\* market has a remembered edge exactly when one of its rows was traded with a known target
RowInputs(m) ==
    {r \in (IF m = "m1" THEN Feeds[feed].m1 ELSE Feeds[feed].m2) : r.target \/ edge_hist[m] = <<>>}
RowOrders == Feeds[feed].orders
Impulses == Feeds[feed].impulses
Deltas == Feeds[feed].deltas

\* --------------------------------------------------------------- the ledger
\* sim/paper.py init_state
init_state == [cash_usd |-> cfg.starting_cash_usd, positions |-> <<>>, closed_positions |-> <<>>, realized_pnl_usd |-> 0]

\* models.py PaperPosition as built by open_position; edge_entry, edge_peak and tp35_taken are the
\* attributes run_once assigns without PaperPosition declaring them (None / FALSE: not assigned)
NewPosition(market_id, side, entry_price, size, qty, opened_at, model) ==
    [market_id |-> market_id, side |-> side, status |-> "open", size_usd |-> size, qty |-> qty,
     entry_price |-> entry_price, exit_price |-> None, pnl_usd |-> None, opened_at |-> opened_at,
     closed_at |-> None, model |-> model, close_model |-> None,
     edge_entry |-> None, edge_peak |-> None, tp35_taken |-> FALSE]

\* sim/paper.py open_position: size is clamped to the cash, a non-positive size or price raises
OpenSize(st, size_usd) == Min2(size_usd, st.cash_usd)
OpenRaises_price_only(st, entry_price, size_usd) == entry_price <= 0
OpenRaises(st, entry_price, size_usd) == OpenSize(st, size_usd) <= 0 \/ entry_price <= 0
OpenQty(size, entry_price) == (size * 1000) \div entry_price
open_position_unclamped(st, market_id, side, entry_price, size_usd, model, at) ==
    LET pos == NewPosition(market_id, side, entry_price, size_usd, OpenQty(size_usd, entry_price), at, model)
    IN [st EXCEPT !.cash_usd = @ - size_usd, !.positions = Append(@, pos)]
open_position(st, market_id, side, entry_price, size_usd, model, at) ==
    LET size == OpenSize(st, size_usd)
        pos == NewPosition(market_id, side, entry_price, size, OpenQty(size, entry_price), at, model)
    IN [st EXCEPT !.cash_usd = @ - size, !.positions = Append(@, pos)]

\* sim/paper.py close_fraction: the clamped fraction, in hundredths
ClampFraction(fraction) == Max2(0, Min2(100, fraction))
CloseQty(pos, f) == (pos.qty * f) \div 100
CloseNotional(pos, f) == (pos.size_usd * f) \div 100
Proceeds(pos, exit_price, f) == (CloseQty(pos, f) * exit_price) \div 1000
ClosePnl_proceeds_only(pos, exit_price, f) == Proceeds(pos, exit_price, f)
ClosePnl(pos, exit_price, f) == Proceeds(pos, exit_price, f) - CloseNotional(pos, f)
ReducedPosQtyOnly(pos, f) == [pos EXCEPT !.qty = Max2(0, @ - CloseQty(pos, f))]
\* the position after close_fraction reduced it
ReducedPos(pos, f) ==
    [pos EXCEPT !.qty = Max2(0, @ - CloseQty(pos, f)), !.size_usd = Max2(0, @ - CloseNotional(pos, f))]
\* close_fraction on the position at index i of st.positions
close_fraction(st, i, exit_price, fraction) ==
    LET f == ClampFraction(fraction)
        pos == st.positions[i]
    IN IF f <= 0 THEN st
       ELSE [st EXCEPT !.cash_usd = @ + Proceeds(pos, exit_price, f),
                       !.realized_pnl_usd = @ + ClosePnl(pos, exit_price, f),
                       !.positions[i] = ReducedPos(pos, f)]

\* sim/paper.py close_position on the position at index i of st.positions
ClosedPos(pos, exit_price, at) ==
    LET r == ReducedPos(pos, 100)
    IN [r EXCEPT !.status = "closed", !.exit_price = exit_price,
                 !.pnl_usd = (IF pos.pnl_usd = None THEN 0 ELSE pos.pnl_usd) + ClosePnl(pos, exit_price, 100),
                 !.closed_at = at]
close_position(st, i, exit_price, at) ==
    LET pos == st.positions[i]
        st1 == close_fraction(st, i, exit_price, 100)
        Keep(p) == ~(p.market_id = pos.market_id /\ p.opened_at = pos.opened_at)
    IN [st1 EXCEPT !.positions = SelectSeq(st1.positions, Keep),
                   !.closed_positions = Append(@, ClosedPos(pos, exit_price, at))]

\* ------------------------------------------------ storage and scheduler
\* utils/storage.py save_state / load_state: state.json holds the declared fields of PaperPosition
Declared(pos) == [pos EXCEPT !.edge_entry = None, !.edge_peak = None, !.tp35_taken = FALSE]
Serialize(st) ==
    [st EXCEPT !.positions = [i \in DOMAIN st.positions |-> Declared(st.positions[i])],
               !.closed_positions = [i \in DOMAIN st.closed_positions |-> Declared(st.closed_positions[i])]]

NoClose == [ts |-> 0, reason |-> "", side |-> "", pnl |-> 0]
\* no ledger call made yet; price, size, cash_before and npos_before are history: the arguments of
\* the call and the cash and number of open positions it found
NoCall == [op |-> "init", err |-> "", pnl |-> 0, price |-> 0, size |-> 0, cash_before |-> 0, npos_before |-> 0]
NoOpenRec == [market_id |-> "", side |-> "", at |-> 0, scalp |-> FALSE, lock_until |-> 0, pause_until |-> 0,
              last_close |-> NoClose, winner |-> "", n_open |-> 0, had_open |-> FALSE,
              entry |-> 0, size |-> 0, cash |-> 0, conf |-> 0, t_left_s |-> 0, stable70 |-> FALSE,
              bps_3s |-> 0, target |-> TRUE, model |-> "", edge |-> 0, persist |-> 0]
NoCloseRec == [market_id |-> "", kind |-> "", reason |-> "", fraction |-> 0, pnl |-> 0, at |-> 0, exec |-> "",
               side |-> "", opened_at |-> 0, streak_before |-> 0, lock_before |-> 0, pause_before |-> 0,
               spec_reason |-> "", winner |-> "", exit |-> 0, qty_before |-> 0, size_before |-> 0,
               t_left |-> 0, mark |-> 0, taker |-> 0, pending_created |-> 0, wanted_since |-> 0,
               pending_before |-> [created_ts |-> 0, last_reprice_ts |-> 0, attempts |-> 0, limit_price |-> 0],
               pending_now |-> [created_ts |-> 0, last_reprice_ts |-> 0, attempts |-> 0, limit_price |-> 0],
               bid |-> 0,
               pending_after |-> FALSE,
               live_error |-> ""]
NoRowRec == [market_id |-> "", target |-> TRUE, trend |-> FALSE, opened |-> FALSE, side |-> "", entry |-> 0,
             ask |-> 0, would_open |-> FALSE, at |-> 0, live_error |-> ""]
NoLife == [peak |-> None, tp35 |-> FALSE, wanted_since |-> None]
ModelNames == {"TA", "LL", "RG", "BK"}

\* the module-level dictionaries of main.py at process start
MemInit ==
    /\ last_close = [m \in Markets |-> NoClose]
    /\ flip_fail_streak = [m \in Markets |-> 0]
    /\ market_lock_until = [m \in Markets |-> 0]
    /\ global_open_pause_until = 0
    /\ recent_flip_stop_loss_ts = <<>>
    /\ edge_hist = [m \in Markets |-> <<>>]
    /\ winner_hist = [m \in Markets |-> <<>>]
    /\ pending_closes = {}
    /\ model_stats = [n \in ModelNames |-> [trades |-> 0, wins |-> 0, pnl |-> 0]]

\* loop.py run_forever up to the first cycle: paper mode writes a fresh ledger
Init ==
    /\ feed \in DOMAIN Feeds
    /\ cfg = Feeds[feed].cfg
    /\ attrs = Feeds[feed].attrs
    /\ state = init_state
    /\ disk = init_state
    /\ clock = T0
    /\ ret = NoCall
    /\ nops = 0
    /\ closeLoss = 0
    /\ events = <<>>
    /\ pc = "idle"
    /\ todo = <<>>
    /\ open_map = {}
    /\ impulse = NoImpulse
    /\ MemInit
    /\ ncycles = 0
    /\ nerrors = 0
    /\ nrestarts = 0
    /\ last_open_rec = NoOpenRec
    /\ last_close_rec = NoCloseRec
    /\ lifetime = [m \in Markets |-> NoLife]
    /\ last_row_rec = NoRowRec
    /\ AuxInit

\* ---------------------------------------------------- run_once, trade loop
\* main.py:993-994
edge_yes(r) == r.p_yes - r.ask_yes
edge_no(r) == (1000 - r.p_yes) - r.ask_no
SideEdge(r, side) == IF side = "BUY_YES" THEN edge_yes(r) ELSE edge_no(r)
AskOf(r, side) == IF side = "BUY_YES" THEN r.ask_yes ELSE r.ask_no
BidOf(r, side) == IF side = "BUY_YES" THEN r.bid_yes ELSE r.bid_no
Opposite(side) == IF side = "BUY_YES" THEN "BUY_NO" ELSE "BUY_YES"

\* main.py _history_push
history_push(arr, val) ==
    LET a == Append(arr, val)
    IN IF Len(a) > HistMax THEN SubSeq(a, Len(a) - HistMax + 1, Len(a)) ELSE a

\* the histories as the row sees them, after main.py:1205-1206
EdgeHistOf(m, r) == history_push(edge_hist[m], [ey |-> edge_yes(r), en |-> edge_no(r)])
WinnerHistOf(m, r) == history_push(winner_hist[m], r.winner)

\* main.py:1209 winner_stability, compared with pct/100
StabilityGE(wh, w, pct) ==
    IF wh = <<>> THEN 0 >= pct
    ELSE Cardinality({i \in DOMAIN wh : wh[i] = w}) * 100 >= pct * Len(wh)

\* main.py:991, 1199 and 1418-1419
t_left_s(m) == Max2(0, MarketEnd[m] - clock)
t_left(m) == MarketEnd[m] - clock

\* main.py:1212
reversal_belief(m, r) ==
    /\ (r.winner = "BUY_YES" /\ r.p_yes < 420) \/ (r.winner = "BUY_NO" /\ r.p_yes > 580)
    /\ r.p_hit < 450
    /\ ~StabilityGE(WinnerHistOf(m, r), r.winner, 65)

\* main.py:1244-1257 reentry_cooldown_s, in 1/10000 s
reentry_cooldown(m, r) ==
    LET lc == last_close[m]
        base == IF lc.reason \in {"edge_flip_wrong_way", "edge_decay_stop", "flip_stop"}
                THEN flip_reentry_cooldown_s ELSE base_reentry_cooldown_s
        c1 == base * (IF r.winner = "BUY_YES" THEN buy_yes_reentry_cooldown_mult ELSE buy_no_reentry_cooldown_mult)
        c2 == IF r.winner = lc.side /\ lc.pnl <= 0 THEN c1 * 135 ELSE c1 * 100
        c3 == IF lc.reason = "hard_stop_25" /\ r.winner = lc.side THEN Max2(c2, 600 * 10000) ELSE c2
    IN IF lc.reason \in {"against_winner_no_reversal", "edge_flip_wrong_way"} THEN Max2(c3, 420 * 10000) ELSE c3

\* main.py:1258-1261
lock_ok(m) == clock >= market_lock_until[m]
global_pause_ok == clock >= global_open_pause_until
cool_ok_cooldown_only(m, r) == (clock - last_close[m].ts) * 10000 > reentry_cooldown(m, r)
cool_ok(m, r) ==
    /\ (clock - last_close[m].ts) * 10000 > reentry_cooldown(m, r)
    /\ lock_ok(m)
    /\ global_pause_ok

\* main.py:1262-1268
open_side(m, r) == IF reversal_belief(m, r) THEN Opposite(r.winner) ELSE r.winner

\* no edge asked of an open
required_edge_none(m, r) == 0

\* main.py:1263-1267
required_edge(m, r) ==
    IF reversal_belief(m, r) THEN 60
    ELSE IF r.p_hit > 650 /\ StabilityGE(WinnerHistOf(m, r), r.winner, 70) THEN 34 ELSE 40

\* main.py:1270-1275
\* how many of the last five entries of an edge history are positive on a side
PositiveOn(eh, side) ==
    Cardinality({i \in Max2(1, Len(eh) - 4)..Len(eh) : IF side = "BUY_YES" THEN eh[i].ey > 0 ELSE eh[i].en > 0})

persist(m, r) ==
    LET eh == EdgeHistOf(m, r)
        from == Max2(1, Len(eh) - 4)
    IN Cardinality({i \in from..Len(eh) :
            IF open_side(m, r) = "BUY_YES" THEN eh[i].ey > 0 ELSE eh[i].en > 0})

\* main.py:1279-1287
RecentSameSideLoss(m, side) ==
    last_close[m].side = side /\ last_close[m].pnl <= 0 /\ (clock - last_close[m].ts) < 1800
conf_floor(m, r) ==
    LET s == open_side(m, r)
    IN (IF s = "BUY_NO" THEN buy_no_conf_floor ELSE buy_yes_conf_floor)
       + (IF RecentSameSideLoss(m, s) THEN (IF s = "BUY_NO" THEN 4 ELSE 3) ELSE 0)
consensus_floor(m, r) ==
    LET s == open_side(m, r)
    IN (IF s = "BUY_NO" THEN buy_no_consensus_floor ELSE buy_yes_consensus_floor)
       + (IF RecentSameSideLoss(m, s) THEN 1 ELSE 0)

\* main.py:1293-1299
late_contrarian_block(m, r) ==
    t_left_s(m) < 240 /\ StabilityGE(WinnerHistOf(m, r), r.winner, 70) /\ open_side(m, r) # r.winner
low_stability_block(m, r) ==
    ~StabilityGE(WinnerHistOf(m, r), r.winner,
                 IF open_side(m, r) = "BUY_YES" THEN normal_open_buy_yes_min_winner_stability
                 ELSE normal_open_min_winner_stability)
impulse_against_open(m, r) ==
    \/ open_side(m, r) = "BUY_YES" /\ impulse.bps_3s <= -normal_open_max_opposing_impulse_bps
    \/ open_side(m, r) = "BUY_NO" /\ impulse.bps_3s >= normal_open_max_opposing_impulse_bps

\* main.py:1164 and 1191: the open position open_map holds for the market (0: none)
OpenPosIdx(st, m) ==
    LET I == {i \in DOMAIN st.positions : st.positions[i].market_id = m /\ st.positions[i].status = "open"}
    IN IF I = {} THEN 0 ELSE CHOOSE i \in I : \A j \in I : j <= i
OpenMapKeys(st) == {st.positions[i].market_id : i \in {j \in DOMAIN st.positions : st.positions[j].status = "open"}}

normal_open_ok_any_position(m, r) ==
    /\ r.conf >= conf_floor(m, r)
    /\ r.cons >= consensus_floor(m, r)
    /\ SideEdge(r, open_side(m, r)) >= required_edge(m, r)
    /\ persist(m, r) >= 3
    /\ Cardinality(open_map) < cfg.max_open_positions
    /\ cool_ok(m, r)
    /\ ~late_contrarian_block(m, r)
    /\ ~low_stability_block(m, r)
    /\ ~impulse_against_open(m, r)
normal_open_ok_no_cap(m, r) ==
    /\ OpenPosIdx(state, m) = 0
    /\ r.conf >= conf_floor(m, r)
    /\ r.cons >= consensus_floor(m, r)
    /\ SideEdge(r, open_side(m, r)) >= required_edge(m, r)
    /\ persist(m, r) >= 3
    /\ cool_ok(m, r)
    /\ ~late_contrarian_block(m, r)
    /\ ~low_stability_block(m, r)
    /\ ~impulse_against_open(m, r)
\* main.py:1301
normal_open_ok(m, r) ==
    /\ OpenPosIdx(state, m) = 0
    /\ r.conf >= conf_floor(m, r)
    /\ r.cons >= consensus_floor(m, r)
    /\ SideEdge(r, open_side(m, r)) >= required_edge(m, r)
    /\ persist(m, r) >= 3
    /\ Cardinality(open_map) < cfg.max_open_positions
    /\ cool_ok(m, r)
    /\ ~late_contrarian_block(m, r)
    /\ ~low_stability_block(m, r)
    /\ ~impulse_against_open(m, r)

scalp_open_ok_any_time(m, r) ==
    /\ OpenPosIdx(state, m) = 0
    /\ impulse.side \in Sides
    /\ (IF impulse.bps_3s < 0 THEN -impulse.bps_3s ELSE impulse.bps_3s) >= scalp_min_impulse_bps
    /\ SideEdge(r, impulse.side) >= 20
    /\ Cardinality(open_map) < cfg.max_open_positions
    /\ cool_ok(m, r)
\* main.py:1303-1305
scalp_open_ok(m, r) ==
    /\ OpenPosIdx(state, m) = 0
    /\ impulse.side \in Sides
    /\ (IF impulse.bps_3s < 0 THEN -impulse.bps_3s ELSE impulse.bps_3s) >= scalp_min_impulse_bps
    /\ SideEdge(r, impulse.side) >= 20
    /\ Cardinality(open_map) < cfg.max_open_positions
    /\ cool_ok(m, r)
    /\ t_left_s(m) >= 75

\* main.py:1308
OpenSideChosen(m, r) == IF scalp_open_ok(m, r) THEN impulse.side ELSE open_side(m, r)

\* main.py:1309-1329, open_mode limit_first with open_limit_fallback_taker (the defaults)
OpenEntry(r, side) ==
    LET ask == AskOf(r, side)
        bid == BidOf(r, side)
        limit_open == IF bid > 0 THEN Max2(0, bid + open_limit_improve_ticks * tick_size) ELSE ask
    IN IF ask > 0 /\ limit_open >= ask THEN [entry |-> ask, exec |-> "open_limit_fill"]
       ELSE IF ask > 0 THEN [entry |-> ask, exec |-> "open_limit_timeout_fallback"]
       ELSE [entry |-> 0, exec |-> "open_limit_pending_skip"]

SizeUsd_no_cash_cap(m, r) ==
    LET mul0 == Max2(500, Min2(1000, 500 + r.conf * 6))
        size_mul == IF scalp_open_ok(m, r) THEN Min2(mul0, 650) ELSE mul0
    IN Min2((trade_cap * size_mul) \div 1000, state.cash_usd)

\* main.py:1332-1337
SizeUsd(m, r) ==
    LET mul0 == Max2(500, Min2(1000, 500 + r.conf * 6))
        size_mul == IF scalp_open_ok(m, r) THEN Min2(mul0, 650) ELSE mul0
        per_trade_cash_cap == Max2(100, (state.cash_usd * max_trade_cash_fraction) \div 100)
    IN Min2((trade_cap * size_mul) \div 1000, Min2(per_trade_cash_cap, state.cash_usd))

\* main.py:1338
ModelTag(m, r) == IF scalp_open_ok(m, r) THEN "SCALP" ELSE r.best

\* the records append_event writes to events.jsonl, with the fields the ledger can be rebuilt
\* from (closed_at: the time of a CLOSE, None otherwise); main.py:1381-1401, 1481-1490, 1656-1678
PaperEvent(action, m, side, size, price, fraction, pnl, opened_at, reason, exec) ==
    [type |-> "paper_trade", action |-> action, market_id |-> m, side |-> side, size_usd |-> size,
     price |-> price, fraction |-> fraction, pnl_usd |-> pnl, opened_at |-> opened_at,
     closed_at |-> IF action = "CLOSE" THEN clock ELSE None, reason |-> reason, exec |-> exec,
     qty |-> 0, ok |-> TRUE, error |-> ""]
\* loop.py:29-31
LoopErrorEvent == [PaperEvent("", "", "", 0, 0, 0, 0, 0, "", "") EXCEPT !.type = "loop_error"]

\* execution/live.py LiveExecutor.place for an enabled executor: [ok, error]
place(token_id, price, size, venue) ==
    IF token_id = "" THEN [ok |-> FALSE, error |-> "token_id_missing"]
    ELSE IF price <= 0 \/ size <= 0 THEN [ok |-> FALSE, error |-> "invalid_price_or_size"]
    ELSE IF venue = "ok" THEN [ok |-> TRUE, error |-> ""]
    ELSE [ok |-> FALSE, error |-> venue]
\* main.py:1365 and 1526: a live submission that is not ok ends the work on the row
live_aborts_never(res) == FALSE
live_aborts(res) == cfg.live_enabled /\ ~res.ok
\* main.py:867
token_ids_by_market(m, side) == IF side = "BUY_YES" THEN "yes_token" ELSE "no_token"
\* the live_trade record of main.py:1351-1364 and 1511-1525
LiveEvent(action, m, side, price, qty, res, reason, exec) ==
    [PaperEvent(action, m, side, 0, price, 0, 0, 0, reason, exec)
        EXCEPT !.type = "live_trade", !.qty = qty, !.ok = res.ok, !.error = res.error]
\* events.jsonl after the live_trade record of a submission, if the run is live
LiveLogged(action, m, side, price, qty, res, reason, exec) ==
    IF cfg.live_enabled THEN Append(events, LiveEvent(action, m, side, price, qty, res, reason, exec))
    ELSE events

\* main.py:997 and 1179-1180: only rows with a known target are traded
target_known_any(r) == TRUE
target_known(r) == r.target
\* main.py:1179-1187: the row is passed over before anything is read or remembered
row_skipped(r) == ~target_known(r) \/ r.side = ""

\* the trend path of the specification in the trend-follow scenario: winner side YES and no
\* reversal belief, edge_yes of 0.08, confidence >= 60, consensus >= 5, no prior close, no lock
\* or pause, no position on the market and fewer than max_open positions, a known target, at
\* least 3 of the last 5 edges positive, winner stability >= 0.30, no opposing impulse, an ask
\* to buy at and a dollar of cash
TrendScenario(m, r) ==
    /\ r.target /\ r.side = "BUY_YES"
    /\ r.winner = "BUY_YES" /\ ~reversal_belief(m, r)
    /\ edge_yes(r) >= 80
    /\ r.conf >= 60 /\ r.cons >= 5
    /\ last_close[m].ts = 0
    /\ clock >= market_lock_until[m] /\ clock >= global_open_pause_until
    /\ OpenPosIdx(state, m) = 0 /\ Cardinality(open_map) < cfg.max_open_positions
    /\ persist(m, r) >= 3
    /\ StabilityGE(WinnerHistOf(m, r), "BUY_YES", normal_open_buy_yes_min_winner_stability)
    /\ impulse.bps_3s > -normal_open_max_opposing_impulse_bps
    /\ r.ask_yes > 0
    /\ state.cash_usd >= 100

\* loop.py:21-31 with main.py:584 and the head of the trade loop: a cycle starts, loads
\* state.json and takes this cycle's rows and impulse
CycleStart ==
    /\ UNCHANGED auxVars
    /\ pc = "idle"
    /\ ncycles < Feeds[feed].cycles
    /\ \E rows \in RowOrders, imp \in Impulses :
        /\ todo' = rows
        /\ impulse' = imp
    /\ state' = disk
    /\ open_map' = OpenMapKeys(disk)
    /\ pc' = "loop"
    /\ ncycles' = ncycles + 1
    /\ UNCHANGED <<clock, ret, nops, closeLoss, disk, events, cfg, attrs, feed, nerrors, nrestarts,
                   last_open_rec, last_close_rec, lifetime, last_row_rec>>
    /\ UNCHANGED memVars

\* the exception a cycle ends with reaches run_forever: loop_error is logged, the ledger of
\* the cycle is not saved, the loop sleeps and goes on (loop.py:29-44)
Abandon(dt) ==
    /\ pc' = "idle"
    /\ todo' = <<>>
    /\ state' = disk
    /\ open_map' = {}
    /\ events' = Append(events, LoopErrorEvent)
    /\ clock' = clock + dt
    /\ nerrors' = nerrors + 1
    /\ impulse' = NoImpulse
    /\ UNCHANGED <<ret, nops, closeLoss, disk, cfg, attrs, feed, ncycles, nrestarts>>

\* main.py:1177-1403 for a row that opens nothing and manages no position
RowIdle ==
    /\ UNCHANGED auxVars
    /\ pc = "loop" /\ todo # <<>>
    /\ LET m == Head(todo)
       IN \E r \in RowInputs(m) :
            /\ \/ row_skipped(r)
               \/ /\ OpenPosIdx(state, m) = 0
                  /\ \/ ~(normal_open_ok(m, r) \/ scalp_open_ok(m, r))
                     \/ ~(OpenEntry(r, OpenSideChosen(m, r)).entry > 0 /\ SizeUsd(m, r) >= 100)
            /\ edge_hist' = IF row_skipped(r) THEN edge_hist ELSE [edge_hist EXCEPT ![m] = EdgeHistOf(m, r)]
            /\ winner_hist' = IF row_skipped(r) THEN winner_hist ELSE [winner_hist EXCEPT ![m] = WinnerHistOf(m, r)]
            /\ last_row_rec' = IF OpenPosIdx(state, m) # 0 THEN last_row_rec
                               ELSE [market_id |-> m, target |-> r.target, trend |-> TrendScenario(m, r),
                                     opened |-> FALSE, side |-> "", entry |-> 0, ask |-> r.ask_yes,
                                     at |-> clock, live_error |-> "",
                                     would_open |-> /\ normal_open_ok(m, r) \/ scalp_open_ok(m, r)
                                                    /\ OpenEntry(r, OpenSideChosen(m, r)).entry > 0
                                                    /\ SizeUsd(m, r) >= 100]
    /\ todo' = Tail(todo)
    /\ UNCHANGED <<last_close, flip_fail_streak, market_lock_until, global_open_pause_until,
                   recent_flip_stop_loss_ts, pending_closes, model_stats>>
    /\ UNCHANGED ledgerVars
    /\ UNCHANGED <<disk, events, cfg, attrs, feed, pc, open_map, impulse, ncycles, nerrors, nrestarts,
                   last_open_rec, last_close_rec, lifetime>>

\* main.py:1307-1403: the row opens a position
RowOpen ==
    /\ UNCHANGED auxVars
    /\ pc = "loop" /\ todo # <<>>
    /\ LET m == Head(todo)
       IN \E r \in RowInputs(m), dt \in Deltas, venue \in Venue :
            LET side == OpenSideChosen(m, r)
                oe == OpenEntry(r, side)
                size == SizeUsd(m, r)
                live_open == place(token_ids_by_market(m, side), oe.entry, OpenQty(size, oe.entry), venue)
                logged == LiveLogged("OPEN_SUBMIT", m, side, oe.entry, OpenQty(size, oe.entry), live_open,
                                     "", oe.exec)
                st1 == open_position(state, m, side, oe.entry, size, ModelTag(m, r), clock)
                n == Len(st1.positions)
                st2 == [st1 EXCEPT !.positions[n].edge_entry = SideEdge(r, side),
                                   !.positions[n].edge_peak = SideEdge(r, side)]
            IN /\ ~row_skipped(r)
               /\ normal_open_ok(m, r) \/ scalp_open_ok(m, r)
               /\ oe.entry > 0 /\ size >= 100
               /\ edge_hist' = [edge_hist EXCEPT ![m] = EdgeHistOf(m, r)]
               /\ winner_hist' = [winner_hist EXCEPT ![m] = WinnerHistOf(m, r)]
               /\ IF live_aborts(live_open)
                  THEN \* main.py:1365-1367: the submission failed, the row is left
                       /\ events' = logged
                       /\ last_row_rec' = [market_id |-> m, target |-> r.target, trend |-> TrendScenario(m, r),
                                           opened |-> FALSE, side |-> side, entry |-> oe.entry,
                                           ask |-> r.ask_yes, would_open |-> TRUE,
                                           at |-> clock, live_error |-> live_open.error]
                       /\ todo' = Tail(todo)
                       /\ UNCHANGED <<state, open_map, clock, ret, nops, closeLoss, disk, cfg, attrs, feed, pc,
                                      impulse, ncycles, nerrors, nrestarts, last_open_rec, last_close_rec,
                                      lifetime>>
                  ELSE IF attrs = "reject"
                  THEN \* main.py:1378 raises after open_position changed the ledger of the cycle
                       /\ Abandon(dt)
                       /\ last_row_rec' = [market_id |-> m, target |-> r.target, trend |-> TrendScenario(m, r),
                                           opened |-> FALSE, side |-> side, entry |-> oe.entry,
                                           ask |-> r.ask_yes, would_open |-> TRUE,
                                           at |-> clock, live_error |-> ""]
                       /\ UNCHANGED <<last_open_rec, last_close_rec, lifetime>>
                  ELSE /\ state' = st2
                       /\ open_map' = open_map \cup {m}
                       /\ events' = Append(logged, PaperEvent("OPEN", m, side, st2.positions[n].size_usd,
                                                              oe.entry, 0, 0, clock, "", oe.exec))
                       /\ last_open_rec' = [market_id |-> m, side |-> side, at |-> clock,
                                            scalp |-> scalp_open_ok(m, r),
                                            lock_until |-> market_lock_until[m],
                                            pause_until |-> global_open_pause_until,
                                            last_close |-> last_close[m], winner |-> r.winner,
                                            n_open |-> Cardinality(OpenMapKeys(state)),
                                            had_open |-> m \in OpenMapKeys(state),
                                            entry |-> oe.entry, size |-> st2.positions[n].size_usd,
                                            cash |-> state.cash_usd, conf |-> r.conf,
                                            t_left_s |-> t_left_s(m),
                                            stable70 |-> StabilityGE(WinnerHistOf(m, r), r.winner, 70),
                                            bps_3s |-> impulse.bps_3s, target |-> r.target,
                                            model |-> ModelTag(m, r),
                                            edge |-> SideEdge(r, side),
                                            persist |-> PositiveOn(EdgeHistOf(m, r), side)]
                       /\ last_row_rec' = [market_id |-> m, target |-> r.target, trend |-> TrendScenario(m, r),
                                           opened |-> TRUE, side |-> side, entry |-> oe.entry,
                                           ask |-> r.ask_yes, would_open |-> TRUE,
                                           at |-> clock, live_error |-> ""]
                       /\ lifetime' = [lifetime EXCEPT ![m] = [peak |-> SideEdge(r, side), tp35 |-> FALSE, wanted_since |-> None]]
                       /\ todo' = Tail(todo)
                       /\ UNCHANGED <<clock, ret, nops, closeLoss, disk, cfg, attrs, feed, pc, impulse,
                                      ncycles, nerrors, nrestarts, last_close_rec>>
    /\ UNCHANGED <<last_close, flip_fail_streak, market_lock_until, global_open_pause_until,
                   recent_flip_stop_loss_ts, pending_closes, model_stats>>

\* ------------------------------------------------ run_once, close policy
\* main.py:1412 u_pnl compared with k/1000
UpnlGE(pos, mark, k) ==
    IF pos.entry_price > 0 THEN (mark - pos.entry_price) * 1000 >= k * pos.entry_price ELSE 0 >= k
UpnlLE(pos, mark, k) ==
    IF pos.entry_price > 0 THEN (mark - pos.entry_price) * 1000 <= k * pos.entry_price ELSE 0 <= k

\* main.py:1425-1426
PeakOf(pos, r) ==
    LET held_edge == SideEdge(r, pos.side)
        stored == IF pos.edge_peak # None THEN pos.edge_peak
                  ELSE IF pos.edge_entry # None /\ pos.edge_entry # 0 THEN pos.edge_entry
                  ELSE held_edge
    IN Max2(stored, held_edge)

\* main.py:1431 _seconds_since_iso(opened_at)
held_s(pos) == Max2(0, clock - pos.opened_at)

Decision(reason, frac, rule) == [reason |-> reason, frac |-> frac, rule |-> rule]

close_policy_no_time_exit(pos, m, r) ==
    LET mark == AskOf(r, pos.side)
        held_edge == SideEdge(r, pos.side)
        opp_edge == SideEdge(r, Opposite(pos.side))
        flip == r.side # pos.side /\ r.conf >= flip_signal_conf_min
        against_winner == pos.side # r.winner
        peak == PeakOf(pos, r)
        scalp == pos.model = "SCALP"
        held == held_s(pos) >= min_hold_for_flip_exit_s
    IN IF mark >= 990 THEN Decision("resolved_win_proxy", 100, 1)
       ELSE IF mark <= 10 THEN Decision("resolved_loss_proxy", 100, 2)
       ELSE IF UpnlLE(pos, mark, -250) THEN Decision("hard_stop_25", 100, 3)
       ELSE IF flip /\ UpnlLE(pos, mark, IF pos.side = "BUY_NO" THEN buy_no_flip_stop_loss_pct
                                                                ELSE flip_stop_loss_pct)
            THEN Decision("flip_stop", 100, 4)
       ELSE IF scalp /\ UpnlGE(pos, mark, 20) THEN Decision("scalp_take_quick", 100, 5)
       ELSE IF scalp /\ held_s(pos) >= 30 THEN Decision("scalp_timeout", 100, 5)
       ELSE IF scalp /\ held_edge < 4 THEN Decision("scalp_edge_faded", 100, 5)
       ELSE IF held /\ held_edge <= -12 /\ opp_edge >= 25 THEN Decision("edge_flip_wrong_way", 100, 6)
       ELSE IF held /\ held_edge < 0 /\ ~UpnlGE(pos, mark, 0) THEN Decision("edge_decay_stop", 100, 7)
       ELSE IF held /\ peak > 0 /\ held_edge * 100 < 45 * peak /\ ~UpnlLE(pos, mark, 0)
            THEN Decision("edge_trailing_stop", 100, 8)
       ELSE IF against_winner /\ ~reversal_belief(m, r) /\ t_left_s(m) < 300
            THEN Decision("against_winner_no_reversal", 100, 9)
       ELSE IF t_left(m) < 90 /\ ~UpnlLE(pos, mark, 0) THEN Decision("time_lt_90s_bank", 100, 10)
       ELSE IF t_left(m) < 180 /\ r.conf < 58 THEN Decision("time_lt_180s_low_conf", 100, 10)
       ELSE IF UpnlGE(pos, mark, 500) THEN Decision("tp_50", 100, 11)
       ELSE IF UpnlGE(pos, mark, 350) /\ ~pos.tp35_taken THEN Decision("tp_35_half", 50, 11)
       ELSE Decision("", 0, 0)
\* main.py:1408-1471: the if / elif chain of the close policy; frac in hundredths, 0: no close
close_policy(pos, m, r) ==
    LET mark == AskOf(r, pos.side)
        held_edge == SideEdge(r, pos.side)
        opp_edge == SideEdge(r, Opposite(pos.side))
        flip == r.side # pos.side /\ r.conf >= flip_signal_conf_min
        against_winner == pos.side # r.winner
        peak == PeakOf(pos, r)
        scalp == pos.model = "SCALP"
        held == held_s(pos) >= min_hold_for_flip_exit_s
    IN IF mark >= 990 THEN Decision("resolved_win_proxy", 100, 1)
       ELSE IF mark <= 10 THEN Decision("resolved_loss_proxy", 100, 2)
       ELSE IF UpnlLE(pos, mark, -250) THEN Decision("hard_stop_25", 100, 3)
       ELSE IF flip /\ UpnlLE(pos, mark, IF pos.side = "BUY_NO" THEN buy_no_flip_stop_loss_pct
                                                                ELSE flip_stop_loss_pct)
            THEN Decision("flip_stop", 100, 4)
       ELSE IF scalp /\ UpnlGE(pos, mark, 20) THEN Decision("scalp_take_quick", 100, 5)
       ELSE IF scalp /\ held_s(pos) >= 30 THEN Decision("scalp_timeout", 100, 5)
       ELSE IF scalp /\ held_edge < 4 THEN Decision("scalp_edge_faded", 100, 5)
       ELSE IF held /\ held_edge <= -12 /\ opp_edge >= 25 THEN Decision("edge_flip_wrong_way", 100, 6)
       ELSE IF held /\ held_edge < 0 /\ ~UpnlGE(pos, mark, 0) THEN Decision("edge_decay_stop", 100, 7)
       ELSE IF held /\ peak > 0 /\ held_edge * 100 < 45 * peak /\ ~UpnlLE(pos, mark, 0)
            THEN Decision("edge_trailing_stop", 100, 8)
       ELSE IF against_winner /\ ~reversal_belief(m, r) /\ t_left_s(m) < 300
            THEN Decision("against_winner_no_reversal", 100, 9)
       ELSE IF t_left(m) < 45 THEN Decision("time_lt_45s", 100, 10)
       ELSE IF t_left(m) < 90 /\ ~UpnlLE(pos, mark, 0) THEN Decision("time_lt_90s_bank", 100, 10)
       ELSE IF t_left(m) < 180 /\ r.conf < 58 THEN Decision("time_lt_180s_low_conf", 100, 10)
       ELSE IF UpnlGE(pos, mark, 500) THEN Decision("tp_50", 100, 11)
       ELSE IF UpnlGE(pos, mark, 350) /\ ~pos.tp35_taken THEN Decision("tp_35_half", 50, 11)
       ELSE Decision("", 0, 0)

\* main.py _pos_key
pos_key(pos) == <<pos.market_id, pos.opened_at, pos.side>>

\* main.py _build_close_order (prices are on the tick grid, _round_price leaves them)
build_close_order(side, r) ==
    LET bid == BidOf(r, side)
        ask == AskOf(r, side)
        taker_px == IF bid > 0 THEN bid ELSE ask
        target == IF bid > 0 /\ ask > 0 /\ ask >= bid THEN Min2(ask, bid + close_limit_improve_ticks * tick_size)
                  ELSE IF ask > 0 THEN ask ELSE bid
    IN [mode |-> cfg.close_mode, taker_price |-> taker_px,
        limit_price |-> IF cfg.close_mode = "market" THEN 0 ELSE target, bid |-> bid, ask |-> ask]

resolve_limit_close_no_force(pos, close_reason, order) ==
    LET key == pos_key(pos)
        others == {e \in pending_closes : e.key # key}
        old == {e \in pending_closes : e.key = key}
        fresh == [key |-> key, created_ts |-> clock, last_reprice_ts |-> clock, attempts |-> 1,
                  limit_price |-> order.limit_price, reason |-> close_reason]
        st == IF old = {} THEN fresh
              ELSE LET e == CHOOSE x \in old : TRUE
                   IN IF clock - e.last_reprice_ts >= close_limit_reprice_s
                      THEN [e EXCEPT !.attempts = @ + 1, !.last_reprice_ts = clock,
                                     !.limit_price = IF order.bid > 0
                                                     THEN Min2(IF @ # 0 THEN @ ELSE order.limit_price,
                                                               order.bid + tick_size)
                                                     ELSE @]
                      ELSE e
        px == IF order.taker_price > 0 THEN order.taker_price
              ELSE IF order.bid > 0 THEN order.bid ELSE order.ask
    IN IF FALSE
       THEN [exit |-> IF order.taker_price > 0 THEN order.taker_price ELSE None,
             tag |-> "close_force_taker", pending |-> others]
       ELSE IF order.bid > 0 /\ st.limit_price > 0 /\ order.bid >= st.limit_price
       THEN [exit |-> st.limit_price, tag |-> "close_limit_fill", pending |-> others]
       ELSE IF clock - st.created_ts >= close_limit_timeout_s
       THEN [exit |-> IF px > 0 THEN px ELSE None, tag |-> "close_limit_timeout_fallback", pending |-> others]
       ELSE [exit |-> None, tag |-> "", pending |-> others \cup {st}]
resolve_limit_close_no_timeout(pos, close_reason, order) ==
    LET key == pos_key(pos)
        others == {e \in pending_closes : e.key # key}
        old == {e \in pending_closes : e.key = key}
        fresh == [key |-> key, created_ts |-> clock, last_reprice_ts |-> clock, attempts |-> 1,
                  limit_price |-> order.limit_price, reason |-> close_reason]
        st == IF old = {} THEN fresh
              ELSE LET e == CHOOSE x \in old : TRUE
                   IN IF clock - e.last_reprice_ts >= close_limit_reprice_s
                      THEN [e EXCEPT !.attempts = @ + 1, !.last_reprice_ts = clock,
                                     !.limit_price = IF order.bid > 0
                                                     THEN Min2(IF @ # 0 THEN @ ELSE order.limit_price,
                                                               order.bid + tick_size)
                                                     ELSE @]
                      ELSE e
        px == IF order.taker_price > 0 THEN order.taker_price
              ELSE IF order.bid > 0 THEN order.bid ELSE order.ask
    IN IF close_reason \in close_force_taker_reasons
       THEN [exit |-> IF order.taker_price > 0 THEN order.taker_price ELSE None,
             tag |-> "close_force_taker", pending |-> others]
       ELSE IF order.bid > 0 /\ st.limit_price > 0 /\ order.bid >= st.limit_price
       THEN [exit |-> st.limit_price, tag |-> "close_limit_fill", pending |-> others]
       ELSE IF FALSE
       THEN [exit |-> IF px > 0 THEN px ELSE None, tag |-> "close_limit_timeout_fallback", pending |-> others]
       ELSE [exit |-> None, tag |-> "", pending |-> others \cup {st}]
\* main.py _resolve_limit_close: [exit (None: nothing filled), tag, pending (_PENDING_CLOSES after)]
resolve_limit_close_reprice_up(pos, close_reason, order) ==
    LET key == pos_key(pos)
        others == {e \in pending_closes : e.key # key}
        old == {e \in pending_closes : e.key = key}
        fresh == [key |-> key, created_ts |-> clock, last_reprice_ts |-> clock, attempts |-> 1,
                  limit_price |-> order.limit_price, reason |-> close_reason]
        st == IF old = {} THEN fresh
              ELSE LET e == CHOOSE x \in old : TRUE
                   IN IF clock - e.last_reprice_ts >= close_limit_reprice_s
                      THEN [e EXCEPT !.attempts = @ + 1, !.last_reprice_ts = clock,
                                     !.limit_price = IF order.bid > 0 THEN order.bid + tick_size ELSE @]
                      ELSE e
        px == IF order.taker_price > 0 THEN order.taker_price
              ELSE IF order.bid > 0 THEN order.bid ELSE order.ask
    IN IF close_reason \in close_force_taker_reasons
       THEN [exit |-> IF order.taker_price > 0 THEN order.taker_price ELSE None,
             tag |-> "close_force_taker", pending |-> others]
       ELSE IF order.bid > 0 /\ st.limit_price > 0 /\ order.bid >= st.limit_price
       THEN [exit |-> st.limit_price, tag |-> "close_limit_fill", pending |-> others]
       ELSE IF clock - st.created_ts >= close_limit_timeout_s
       THEN [exit |-> IF px > 0 THEN px ELSE None, tag |-> "close_limit_timeout_fallback", pending |-> others]
       ELSE [exit |-> None, tag |-> "", pending |-> others \cup {st}]

resolve_limit_close(pos, close_reason, order) ==
    LET key == pos_key(pos)
        others == {e \in pending_closes : e.key # key}
        old == {e \in pending_closes : e.key = key}
        fresh == [key |-> key, created_ts |-> clock, last_reprice_ts |-> clock, attempts |-> 1,
                  limit_price |-> order.limit_price, reason |-> close_reason]
        st == IF old = {} THEN fresh
              ELSE LET e == CHOOSE x \in old : TRUE
                   IN IF clock - e.last_reprice_ts >= close_limit_reprice_s
                      THEN [e EXCEPT !.attempts = @ + 1, !.last_reprice_ts = clock,
                                     !.limit_price = IF order.bid > 0
                                                     THEN Min2(IF @ # 0 THEN @ ELSE order.limit_price,
                                                               order.bid + tick_size)
                                                     ELSE @]
                      ELSE e
        px == IF order.taker_price > 0 THEN order.taker_price
              ELSE IF order.bid > 0 THEN order.bid ELSE order.ask
    IN IF close_reason \in close_force_taker_reasons
       THEN [exit |-> IF order.taker_price > 0 THEN order.taker_price ELSE None,
             tag |-> "close_force_taker", pending |-> others]
       ELSE IF order.bid > 0 /\ st.limit_price > 0 /\ order.bid >= st.limit_price
       THEN [exit |-> st.limit_price, tag |-> "close_limit_fill", pending |-> others]
       ELSE IF clock - st.created_ts >= close_limit_timeout_s
       THEN [exit |-> IF px > 0 THEN px ELSE None, tag |-> "close_limit_timeout_fallback", pending |-> others]
       ELSE [exit |-> None, tag |-> "", pending |-> others \cup {st}]

\* created_ts of the entry _PENDING_CLOSES holds for the position (0: no entry)
\* history: the pending-close entry of a key in a set of entries (attempts 0: none)
PendingOf(entries, key) ==
    LET old == {e \in entries : e.key = key}
    IN IF old = {} THEN [created_ts |-> 0, last_reprice_ts |-> 0, attempts |-> 0, limit_price |-> 0]
       ELSE LET e == CHOOSE x \in old : TRUE
            IN [created_ts |-> e.created_ts, last_reprice_ts |-> e.last_reprice_ts,
                attempts |-> e.attempts, limit_price |-> e.limit_price]
PendingCreated(pos) ==
    LET old == {e \in pending_closes : e.key = pos_key(pos)}
    IN IF old = {} THEN 0 ELSE (CHOOSE e \in old : TRUE).created_ts

\* main.py:1476-1497: the price and tag the close executes at (exit None: CLOSE_PENDING)
close_execution(pos, d, r) ==
    LET order == build_close_order(pos.side, r)
    IN IF order.mode = "market" \/ d.frac < 100
       THEN [exit |-> order.taker_price, tag |-> "close_market", pending |-> pending_closes]
       ELSE resolve_limit_close(pos, d.reason, order)

\* the streak update with a win taking one off the streak instead of clearing it
streak_after_decrement(m, reason, pnl) ==
    IF reason = "edge_flip_wrong_way" /\ pnl <= 0 THEN flip_fail_streak[m] + 1
    ELSE Max2(0, flip_fail_streak[m] - 1)

\* main.py:1555-1562
streak_after(m, reason, pnl) ==
    IF reason = "edge_flip_wrong_way" /\ pnl <= 0 THEN flip_fail_streak[m] + 1
    ELSE IF reason \in {"edge_trailing_stop", "tp_50", "tp_35_half", "time_lt_90s_bank", "resolved_win_proxy"} /\ pnl > 0
    THEN 0
    ELSE Max2(0, flip_fail_streak[m] - 1)

\* main.py:1564-1654: _MARKET_LOCK_UNTIL[mid] after a full close
lock_after(m, reason, pnl) ==
    LET l0 == market_lock_until[m]
        l1 == IF reason = "edge_flip_wrong_way" /\ pnl <= 0 THEN Max2(l0, clock + 360) ELSE l0
        l2 == IF reason = "hard_stop_25" /\ pnl <= 0 THEN Max2(l1, clock + 720) ELSE l1
        l3 == IF reason = "flip_stop" /\ pnl <= 0 /\ cfg.flip_stop_loss_lock_seconds > 0
              THEN Max2(l2, clock + cfg.flip_stop_loss_lock_seconds) ELSE l2
        streak == streak_after(m, reason, pnl)
    IN IF streak >= 2 THEN clock + Min2(900, 300 + (streak - 2) * 180) ELSE l3

\* main.py:1597-1625: the cross-market brake
brake_applies(reason, pnl) ==
    /\ reason = "flip_stop" /\ pnl <= 0 /\ cfg.flip_stop_loss_lock_seconds > 0
    /\ cfg.global_flip_stop_pause_seconds > 0 /\ global_flip_stop_trigger_count > 0
InWindow(t) == clock - t <= Max2(60, global_flip_stop_window_seconds)
recent_after(reason, pnl) ==
    IF brake_applies(reason, pnl) THEN Append(SelectSeq(recent_flip_stop_loss_ts, InWindow), clock)
    ELSE recent_flip_stop_loss_ts
pause_after(reason, pnl) ==
    IF brake_applies(reason, pnl) /\ Len(recent_after(reason, pnl)) >= global_flip_stop_trigger_count
    THEN Max2(global_open_pause_until, clock + cfg.global_flip_stop_pause_seconds)
    ELSE global_open_pause_until

\* main.py:1546-1552
stats_after(pos, pnl) ==
    IF pos.model \in ModelNames
    THEN [model_stats EXCEPT ![pos.model] = [trades |-> @.trades + 1,
                                             wins |-> @.wins + (IF pnl > 0 THEN 1 ELSE 0),
                                             pnl |-> @.pnl + pnl]]
    ELSE model_stats

\* the close rules 1 to 11 as the specification words them, on the position's lifetime
\* values: the reason of the first rule whose condition holds ("": none)
SpecReason(pos, m, r, life) ==
    LET mark == AskOf(r, pos.side)
        held_edge == SideEdge(r, pos.side)
        opp_edge == SideEdge(r, Opposite(pos.side))
        edge_peak == Max2(IF life.peak = None THEN held_edge ELSE life.peak, held_edge)
        scalp == pos.model = "SCALP"
        held20 == held_s(pos) >= 20
    IN IF mark >= 990 THEN "resolved_win_proxy"
       ELSE IF mark <= 10 THEN "resolved_loss_proxy"
       ELSE IF UpnlLE(pos, mark, -250) THEN "hard_stop_25"
       ELSE IF r.side # pos.side /\ r.conf >= 62 /\ UpnlLE(pos, mark, IF pos.side = "BUY_NO" THEN -100 ELSE -120)
            THEN "flip_stop"
       ELSE IF scalp /\ UpnlGE(pos, mark, 20) THEN "scalp_take_quick"
       ELSE IF scalp /\ held_s(pos) >= 30 THEN "scalp_timeout"
       ELSE IF scalp /\ held_edge < 4 THEN "scalp_edge_faded"
       ELSE IF held20 /\ held_edge <= -12 /\ opp_edge >= 25 THEN "edge_flip_wrong_way"
       ELSE IF held20 /\ held_edge < 0 /\ ~UpnlGE(pos, mark, 0) THEN "edge_decay_stop"
       ELSE IF held20 /\ held_edge * 100 < 45 * edge_peak /\ ~UpnlLE(pos, mark, 0) THEN "edge_trailing_stop"
       ELSE IF pos.side # r.winner /\ ~reversal_belief(m, r) /\ t_left(m) < 300 THEN "against_winner_no_reversal"
       ELSE IF t_left(m) < 45 THEN "time_lt_45s"
       ELSE IF t_left(m) < 90 /\ ~UpnlLE(pos, mark, 0) THEN "time_lt_90s_bank"
       ELSE IF t_left(m) < 180 /\ r.conf < 58 THEN "time_lt_180s_low_conf"
       ELSE IF UpnlGE(pos, mark, 500) THEN "tp_50"
       ELSE IF UpnlGE(pos, mark, 350) /\ ~life.tp35 THEN "tp_35_half"
       ELSE ""

\* main.py:1406-1678 for a row whose market holds an open position: close policy, execution,
\* ledger, memories and events
RowManage ==
    /\ UNCHANGED auxVars
    /\ pc = "loop" /\ todo # <<>>
    /\ LET m == Head(todo)
           i == OpenPosIdx(state, m)
       IN /\ i # 0
          /\ \E r \in RowInputs(m), dt \in Deltas, venue \in Venue :
               LET pos == state.positions[i]
                   mark == AskOf(r, pos.side)
                   d == close_policy(pos, m, r)
                   x == close_execution(pos, d, r)
                   kind0 == IF mark <= 0 THEN "skip"
                            ELSE IF d.frac = 0 THEN "hold"
                            ELSE IF x.exit = None THEN "pending"
                            ELSE IF x.exit <= 0 THEN "noprice"
                            ELSE IF d.frac >= 100 THEN "close" ELSE "partial"
                   submits == kind0 \in {"close", "partial"}
                   live_close == IF submits
                                 THEN place(token_ids_by_market(m, pos.side), x.exit, CloseQty(pos, d.frac), venue)
                                 ELSE [ok |-> TRUE, error |-> ""]
                   logged == IF submits
                             THEN LiveLogged(IF d.frac >= 100 THEN "CLOSE_SUBMIT" ELSE "PARTIAL_CLOSE_SUBMIT",
                                             m, pos.side, x.exit, CloseQty(pos, d.frac), live_close, d.reason, x.tag)
                             ELSE events
                   \* main.py:1526-1528: the submission failed, the row is left
                   kind == IF live_aborts(live_close) THEN "live_fail" ELSE kind0
                   acts == kind \in {"close", "partial"}
                   st_peak == [state EXCEPT !.positions[i].edge_peak = PeakOf(pos, r)]
                   st_c == [st_peak EXCEPT !.positions[i].close_model = r.best]
                   pnl == IF acts THEN ClosePnl(pos, x.exit, d.frac) ELSE 0
                   loss == IF acts THEN CloseNotional(pos, d.frac) - Proceeds(pos, x.exit, d.frac) ELSE 0
                   part == close_fraction(st_c, i, x.exit, d.frac)
               IN /\ ~row_skipped(r)
                  /\ edge_hist' = [edge_hist EXCEPT ![m] = EdgeHistOf(m, r)]
                  /\ winner_hist' = [winner_hist EXCEPT ![m] = WinnerHistOf(m, r)]
                  /\ IF attrs = "reject" /\ mark > 0
                     THEN \* main.py:1425 / 1427 raise
                          /\ Abandon(dt)
                          /\ UNCHANGED <<last_close, flip_fail_streak, market_lock_until, global_open_pause_until,
                                         recent_flip_stop_loss_ts, pending_closes, model_stats,
                                         last_open_rec, last_close_rec, lifetime, last_row_rec>>
                     ELSE /\ state' = CASE kind = "skip" -> state
                                        [] kind = "close" -> close_position(st_c, i, x.exit, clock)
                                        [] kind = "partial" ->
                                             [part EXCEPT !.positions[i].pnl_usd =
                                                              (IF pos.pnl_usd = None THEN 0 ELSE pos.pnl_usd) + pnl,
                                                          !.positions[i].tp35_taken = @ \/ d.reason = "tp_35_half"]
                                        [] OTHER -> st_peak
                          /\ pending_closes' = CASE kind \in {"skip", "hold"} -> pending_closes
                                                 [] kind = "close" -> {e \in x.pending : e.key # pos_key(pos)}
                                                 [] OTHER -> x.pending
                          /\ events' = CASE kind = "pending" ->
                                              Append(events, PaperEvent("CLOSE_PENDING", m, pos.side, 0, 0, 0, 0,
                                                                        pos.opened_at, d.reason, "limit_first"))
                                         [] kind = "close" ->
                                              Append(logged, PaperEvent("CLOSE", m, pos.side, CloseNotional(pos, 100),
                                                                        x.exit, d.frac, pnl, pos.opened_at, d.reason, x.tag))
                                         [] kind = "partial" ->
                                              Append(logged, PaperEvent("PARTIAL_CLOSE", m, pos.side,
                                                                        CloseNotional(pos, d.frac), x.exit, d.frac, pnl,
                                                                        pos.opened_at, d.reason, x.tag))
                                         [] kind = "live_fail" -> logged
                                         [] OTHER -> events
                          /\ closeLoss' = closeLoss + loss
                          /\ IF kind = "close"
                             THEN /\ last_close' = [last_close EXCEPT ![m] =
                                                       [ts |-> clock, reason |-> d.reason, side |-> pos.side, pnl |-> pnl]]
                                  /\ model_stats' = stats_after(pos, pnl)
                                  /\ flip_fail_streak' = [flip_fail_streak EXCEPT ![m] = streak_after(m, d.reason, pnl)]
                                  /\ market_lock_until' = [market_lock_until EXCEPT ![m] = lock_after(m, d.reason, pnl)]
                                  /\ recent_flip_stop_loss_ts' = recent_after(d.reason, pnl)
                                  /\ global_open_pause_until' = pause_after(d.reason, pnl)
                             ELSE UNCHANGED <<last_close, model_stats, flip_fail_streak, market_lock_until,
                                              recent_flip_stop_loss_ts, global_open_pause_until>>
                          /\ lifetime' = CASE kind = "skip" -> lifetime
                                           [] kind = "close" -> [lifetime EXCEPT ![m] = NoLife]
                                           [] OTHER -> [lifetime EXCEPT ![m] =
                                                          [peak |-> Max2(IF @.peak = None THEN SideEdge(r, pos.side) ELSE @.peak,
                                                                         SideEdge(r, pos.side)),
                                                           tp35 |-> @.tp35 \/ (kind = "partial" /\ d.reason = "tp_35_half"),
                                                           wanted_since |-> IF d.frac < 100 THEN None
                                                                            ELSE IF @.wanted_since = None THEN clock
                                                                            ELSE @.wanted_since]]
                          /\ last_close_rec' = IF kind = "skip"
                                               THEN [NoCloseRec EXCEPT !.market_id = m, !.kind = "skip",
                                                                       !.at = clock, !.side = pos.side,
                                                                       !.opened_at = pos.opened_at,
                                                                       !.t_left = t_left(m), !.mark = mark]
                                               ELSE [market_id |-> m, kind |-> kind, reason |-> d.reason,
                                                     fraction |-> d.frac, pnl |-> pnl, at |-> clock, exec |-> x.tag,
                                                     side |-> pos.side, opened_at |-> pos.opened_at,
                                                     streak_before |-> flip_fail_streak[m],
                                                     lock_before |-> market_lock_until[m],
                                                     pause_before |-> global_open_pause_until,
                                                     spec_reason |-> SpecReason(pos, m, r, lifetime[m]),
                                                     winner |-> r.winner,
                                                     exit |-> IF acts THEN x.exit ELSE 0,
                                                     qty_before |-> pos.qty, size_before |-> pos.size_usd,
                                                     t_left |-> t_left(m), mark |-> mark,
                                                     taker |-> build_close_order(pos.side, r).taker_price,
                                                     pending_created |-> PendingCreated(pos),
                                                     pending_before |-> PendingOf(pending_closes, pos_key(pos)),
                                                     pending_now |-> PendingOf(pending_closes', pos_key(pos)),
                                                     bid |-> BidOf(r, pos.side),
                                                     wanted_since |-> IF lifetime[m].wanted_since = None THEN clock
                                                                      ELSE lifetime[m].wanted_since,
                                                     pending_after |->
                                                        \E e \in pending_closes' : e.key = pos_key(pos),
                                                     live_error |-> live_close.error]
                          /\ todo' = Tail(todo)
                          /\ UNCHANGED <<clock, ret, nops, disk, cfg, attrs, feed, pc, open_map, impulse,
                                         ncycles, nerrors, nrestarts, last_open_rec, last_row_rec>>

\* main.py:1681 with loop.py:33-44: the cycle saves the ledger, then the loop sleeps
CycleEnd ==
    /\ UNCHANGED auxVars
    /\ pc = "loop" /\ todo = <<>>
    /\ disk' = Serialize(state)
    /\ state' = Serialize(state)
    /\ pc' = "idle"
    /\ open_map' = {}
    /\ impulse' = NoImpulse
    /\ \E dt \in Deltas : clock' = clock + dt
    /\ UNCHANGED <<ret, nops, closeLoss, events, cfg, attrs, feed, todo, ncycles, nerrors, nrestarts,
                   last_open_rec, last_close_rec, lifetime, last_row_rec>>
    /\ UNCHANGED memVars

\* an exception out of a call of the trade loop (append_event, an adapter): loop.py:29-31
LoopError ==
    /\ UNCHANGED auxVars
    /\ pc = "loop"
    /\ nerrors < Feeds[feed].errors
    /\ \E dt \in Deltas : Abandon(dt)
    /\ UNCHANGED <<last_open_rec, last_close_rec, lifetime, last_row_rec>>
    /\ UNCHANGED memVars

\* the process is started again: module state is fresh, paper mode rewrites state.json
\* (loop.py:9-12), events.jsonl is appended to as before
Restart ==
    /\ UNCHANGED auxVars
    /\ pc = "idle"
    /\ nrestarts < Feeds[feed].restarts
    /\ nrestarts' = nrestarts + 1
    /\ disk' = init_state
    /\ state' = init_state
    /\ last_close' = [m \in Markets |-> NoClose]
    /\ flip_fail_streak' = [m \in Markets |-> 0]
    /\ market_lock_until' = [m \in Markets |-> 0]
    /\ global_open_pause_until' = 0
    /\ recent_flip_stop_loss_ts' = <<>>
    /\ edge_hist' = [m \in Markets |-> <<>>]
    /\ winner_hist' = [m \in Markets |-> <<>>]
    /\ pending_closes' = {}
    /\ model_stats' = [n \in ModelNames |-> [trades |-> 0, wins |-> 0, pnl |-> 0]]
    /\ lifetime' = [m \in Markets |-> NoLife]
    /\ last_open_rec' = NoOpenRec
    /\ last_close_rec' = NoCloseRec
    /\ last_row_rec' = NoRowRec
    /\ UNCHANGED <<clock, ret, nops, closeLoss, events, cfg, attrs, feed, pc, todo, open_map, impulse,
                   ncycles, nerrors>>

Next == CycleStart \/ RowIdle \/ RowOpen \/ RowManage \/ CycleEnd \/ LoopError \/ Restart
Spec == Init /\ [][Next]_vars

\* ------------------------------------------ the ledger called on its own
LedgerInit ==
    /\ feed = "strict"
    /\ cfg = DefaultCfg
    /\ attrs = "reject"
    /\ state = init_state
    /\ clock = 0
    /\ ret = NoCall
    /\ nops = 0
    /\ closeLoss = 0
    /\ disk = init_state
    /\ events = <<>>
    /\ pc = "ledger"
    /\ todo = <<>>
    /\ open_map = {}
    /\ impulse = NoImpulse
    /\ MemInit
    /\ ncycles = 0
    /\ nerrors = 0
    /\ nrestarts = 0
    /\ last_open_rec = NoOpenRec
    /\ last_close_rec = NoCloseRec
    /\ lifetime = [m \in Markets |-> NoLife]
    /\ last_row_rec = NoRowRec
    /\ AuxInit

LOpen ==
    /\ UNCHANGED auxVars
    /\ nops < MaxLedgerOps
    /\ \E m \in Markets, entry \in LedgerPrices, size \in LedgerSizes :
        /\ IF OpenRaises(state, entry, size)
           THEN /\ state' = state
                /\ ret' = [op |-> "open", err |-> "invalid_open", pnl |-> 0, price |-> entry, size |-> size, cash_before |-> state.cash_usd,
                           npos_before |-> Len(state.positions)]
           ELSE /\ state' = open_position(state, m, "BUY_YES", entry, size, "TA", clock)
                /\ ret' = [op |-> "open", err |-> "", pnl |-> 0, price |-> entry, size |-> size, cash_before |-> state.cash_usd,
                           npos_before |-> Len(state.positions)]
        /\ clock' = clock + 1
        /\ nops' = nops + 1
        /\ UNCHANGED closeLoss
    /\ UNCHANGED <<memVars, cycleVars>>

LCloseFraction ==
    /\ UNCHANGED auxVars
    /\ nops < MaxLedgerOps
    /\ \E i \in DOMAIN state.positions, exit \in LedgerPrices, fr \in LedgerFractions :
        LET pos == state.positions[i]
            f == ClampFraction(fr)
        IN /\ IF exit <= 0
              THEN /\ state' = state
                   /\ ret' = [op |-> "close_fraction", err |-> "invalid_close", pnl |-> 0, price |-> exit, size |-> 0,
                              cash_before |-> state.cash_usd, npos_before |-> Len(state.positions)]
                   /\ UNCHANGED closeLoss
              ELSE /\ state' = close_fraction(state, i, exit, fr)
                   /\ ret' = [op |-> "close_fraction", err |-> "",
                              pnl |-> IF f <= 0 THEN 0 ELSE ClosePnl(pos, exit, f), price |-> exit, size |-> 0,
                              cash_before |-> state.cash_usd, npos_before |-> Len(state.positions)]
                   /\ closeLoss' = closeLoss + (IF f <= 0 THEN 0 ELSE CloseNotional(pos, f) - Proceeds(pos, exit, f))
           /\ clock' = clock + 1
           /\ nops' = nops + 1
    /\ UNCHANGED <<memVars, cycleVars>>

LClose ==
    /\ UNCHANGED auxVars
    /\ nops < MaxLedgerOps
    /\ \E i \in DOMAIN state.positions, exit \in LedgerPrices :
        LET pos == state.positions[i]
        IN /\ IF exit <= 0
              THEN /\ state' = state
                   /\ ret' = [op |-> "close", err |-> "invalid_close", pnl |-> 0, price |-> exit, size |-> 0,
                              cash_before |-> state.cash_usd, npos_before |-> Len(state.positions)]
                   /\ UNCHANGED closeLoss
              ELSE /\ state' = close_position(state, i, exit, clock)
                   /\ ret' = [op |-> "close", err |-> "", pnl |-> ClosePnl(pos, exit, 100), price |-> exit, size |-> 0,
                              cash_before |-> state.cash_usd, npos_before |-> Len(state.positions)]
                   /\ closeLoss' = closeLoss + (CloseNotional(pos, 100) - Proceeds(pos, exit, 100))
           /\ clock' = clock + 1
           /\ nops' = nops + 1
    /\ UNCHANGED <<memVars, cycleVars>>

LedgerNext == LOpen \/ LCloseFraction \/ LClose
LedgerSpec == LedgerInit /\ [][LedgerNext]_vars

\* ------------------------------------------------------------- the claims
OpenAt(st, m) == {i \in DOMAIN st.positions : st.positions[i].market_id = m /\ st.positions[i].status = "open"}
ClosedAt(st, m) == {i \in DOMAIN st.closed_positions : st.closed_positions[i].market_id = m}
OpenCount(st) == Cardinality({i \in DOMAIN st.positions : st.positions[i].status = "open"})

\* C1 (amended): after any sequence of opens, partial closes and full closes of the ledger,
\* cash plus the notional of the open positions equals the starting cash plus the realized
\* P&L, and the realized P&L is minus the sum over all closes of (notional - proceeds)
C1_CashConservation ==
    /\ state.cash_usd + SumSize(state.positions) = StartingCash + state.realized_pnl_usd
    /\ state.realized_pnl_usd = -closeLoss
\* C1 as stated: the sum over the closes is subtracted once more
C1_AsStated ==
    state.cash_usd + SumSize(state.positions) = StartingCash + state.realized_pnl_usd - closeLoss
C1_Witness ==
    /\ state.positions # <<>> /\ state.closed_positions # <<>>
    /\ closeLoss # 0
    /\ ret.op = "close_fraction" /\ ret.err = "" /\ ret.pnl # 0

\* C2: in every ledger state, the one the cycle works on and the one in state.json, each
\* market has at most one position with status open
C2_OneOpenPerMarket ==
    \A m \in Markets : Cardinality(OpenAt(state, m)) <= 1 /\ Cardinality(OpenAt(disk, m)) <= 1
C2_Witness ==
    \E m \in Markets : OpenAt(disk, m) # {} /\ ClosedAt(disk, m) # {} /\ last_open_rec.market_id = m

\* C3: at the end of every cycle the ledger saved holds at most max_open_positions open positions
C3_MaxOpenPositions == pc = "idle" => OpenCount(disk) <= cfg.max_open_positions
C3_Witness ==
    /\ pc = "idle" /\ OpenCount(disk) = cfg.max_open_positions
    /\ Len(edge_hist["m1"]) >= 3 /\ Len(edge_hist["m2"]) >= 3
    /\ disk.closed_positions # <<>>

\* the ledger the paper_trade events of events.jsonl describe
EventPos(st, e) ==
    LET I == {i \in DOMAIN st.positions :
                st.positions[i].market_id = e.market_id /\ st.positions[i].opened_at = e.opened_at}
    IN IF I = {} THEN 0 ELSE CHOOSE i \in I : TRUE
ApplyEvent(st, e) ==
    IF e.type # "paper_trade" THEN st
    ELSE IF e.action = "OPEN"
    THEN open_position(st, e.market_id, e.side, e.price, e.size_usd, "", e.opened_at)
    ELSE IF EventPos(st, e) = 0 THEN st
    ELSE IF e.action = "PARTIAL_CLOSE" THEN close_fraction(st, EventPos(st, e), e.price, e.fraction)
    ELSE IF e.action = "CLOSE" THEN close_position(st, EventPos(st, e), e.price, e.closed_at)
    ELSE st
RECURSIVE Replay(_, _)
Replay(evs, st) == IF evs = <<>> THEN st ELSE Replay(Tail(evs), ApplyEvent(st, Head(evs)))
LedgerView(st) ==
    [cash_usd |-> st.cash_usd, realized_pnl_usd |-> st.realized_pnl_usd,
     open |-> {[market_id |-> st.positions[i].market_id, side |-> st.positions[i].side,
                size_usd |-> st.positions[i].size_usd, qty |-> st.positions[i].qty,
                opened_at |-> st.positions[i].opened_at] : i \in DOMAIN st.positions},
     closed |-> {[market_id |-> st.closed_positions[i].market_id, opened_at |-> st.closed_positions[i].opened_at,
                  closed_at |-> st.closed_positions[i].closed_at] : i \in DOMAIN st.closed_positions}]

C5_NoOpenWhileLocked ==
    last_open_rec.market_id # "" =>
        /\ last_open_rec.at >= last_open_rec.lock_until
        /\ last_open_rec.at >= last_open_rec.pause_until
C5_Witness ==
    /\ last_open_rec.market_id # "" /\ last_open_rec.lock_until > 0
    /\ last_open_rec.scalp = FALSE

\* the lock duration the guardrail of a close reason asks for
ReasonLock(reason) ==
    IF reason = "edge_flip_wrong_way" THEN 360
    ELSE IF reason = "hard_stop_25" THEN 720
    ELSE cfg.flip_stop_loss_lock_seconds

FlipStopLosses(t) ==
    {i \in DOMAIN events :
        /\ events[i].type = "paper_trade" /\ events[i].action = "CLOSE"
        /\ events[i].reason = "flip_stop" /\ events[i].pnl_usd <= 0
        /\ t - events[i].closed_at <= global_flip_stop_window_seconds}

SpecCooldown(side, lc) ==
    LET base == IF lc.reason \in {"edge_flip_wrong_way", "edge_decay_stop", "flip_stop"} THEN 240 ELSE 120
        c1 == base * (IF side = "BUY_YES" THEN 120 ELSE 135)
        c2 == IF lc.side = side /\ lc.pnl <= 0 THEN c1 * 135 ELSE c1 * 100
        c3 == IF lc.reason = "hard_stop_25" /\ lc.side = side THEN Max2(c2, 600 * 10000) ELSE c2
    IN IF lc.reason \in {"against_winner_no_reversal", "edge_flip_wrong_way"} THEN Max2(c3, 420 * 10000) ELSE c3

Tp35Events(m, t) ==
    {i \in DOMAIN events :
        /\ events[i].type = "paper_trade" /\ events[i].action = "PARTIAL_CLOSE"
        /\ events[i].reason = "tp_35_half" /\ events[i].market_id = m /\ events[i].opened_at = t}

PendingEvents(m, t) ==
    {i \in DOMAIN events :
        /\ events[i].type = "paper_trade" /\ events[i].action = "CLOSE_PENDING"
        /\ events[i].market_id = m /\ events[i].opened_at = t}

C15_NoLateContrarianOpen ==
    (last_open_rec.market_id # "" /\ last_open_rec.t_left_s < 240 /\ last_open_rec.stable70)
    => last_open_rec.side = last_open_rec.winner
\* the same for the opens that are not scalp opens
C15_NoLateContrarianNormalOpen ==
    (/\ last_open_rec.market_id # "" /\ ~last_open_rec.scalp
     /\ last_open_rec.t_left_s < 240 /\ last_open_rec.stable70)
    => last_open_rec.side = last_open_rec.winner

\* C16: a position is opened only on a row whose BTC target is known in that cycle
C16_NoOpenWithoutTarget ==
    last_open_rec.market_id # "" => last_open_rec.target
C16_Witness ==
    /\ last_row_rec.market_id # "" /\ ~last_row_rec.target
    /\ last_row_rec.would_open /\ ~last_row_rec.opened
    /\ OpenCount(state) = 0

\* C17 as stated: a cycle in which the conditions of the trend-follow scenario hold for a market
\* opens a BUY_YES position on it at the best ask
C17_TrendFollowOpens ==
    (last_row_rec.market_id # "" /\ last_row_rec.trend)
    => /\ last_row_rec.opened /\ last_row_rec.side = "BUY_YES"
       /\ last_row_rec.entry = last_row_rec.ask
\* the same where the attributes the open sets on the position are accepted and, in live
\* mode, the venue took the order
C17_TrendFollowOpensAttrsKept ==
    (attrs = "drop" /\ last_row_rec.live_error = "" /\ last_row_rec.market_id # "" /\ last_row_rec.trend)
    => /\ last_row_rec.opened /\ last_row_rec.side = "BUY_YES"
       /\ last_row_rec.entry = last_row_rec.ask

\* |x|
Abs(x) == IF x < 0 THEN -x ELSE x

\* C18: a scalp open (model tag SCALP) is made only in a cycle with t_left >= 75 s and with
\* |bps_3s| of the impulse at least the scalp impulse threshold
C18_ScalpOpenGuards ==
    (last_open_rec.market_id # "" /\ last_open_rec.model = "SCALP")
    => /\ last_open_rec.t_left_s >= 75
       /\ Abs(last_open_rec.bps_3s) >= scalp_min_impulse_bps
C18_Witness ==
    /\ last_open_rec.market_id # "" /\ last_open_rec.model = "SCALP"
    /\ last_open_rec.t_left_s < 240
    /\ Abs(last_open_rec.bps_3s) < 2 * scalp_min_impulse_bps

\* conf_mult of the sizing rule in thousandths: clip(0.5 + 0.6 * conf / 100, 0.5, 1.0), at most
\* 0.65 for a scalp
ConfMult(conf, scalp) ==
    LET cm == Max2(500, Min2(1000, 500 + conf * 6))
    IN IF scalp THEN Min2(cm, 650) ELSE cm
\* cash * max_trade_cash_fraction in cents
CashFraction(cash) == (cash * max_trade_cash_fraction) \div 100

\* C19 as stated: the notional of an opened position is
\* min(trade_cap * conf_mult, cash * max_trade_cash_fraction, cash) and is never above
\* cash * max_trade_cash_fraction
C19_SizingAsStated ==
    last_open_rec.market_id # ""
    => /\ last_open_rec.size = Min2((trade_cap * ConfMult(last_open_rec.conf, last_open_rec.scalp)) \div 1000,
                                    Min2(CashFraction(last_open_rec.cash), last_open_rec.cash))
       /\ last_open_rec.size <= CashFraction(last_open_rec.cash)
\* C19 amended: the per-trade cash cap is max($1, cash * max_trade_cash_fraction), so the
\* notional is min(trade_cap * conf_mult, max($1, cash * max_trade_cash_fraction), cash); it is
\* above cash * max_trade_cash_fraction only when that product is under $1, and is then $1
C19_SizingWithFloor ==
    last_open_rec.market_id # ""
    => /\ last_open_rec.size = Min2((trade_cap * ConfMult(last_open_rec.conf, last_open_rec.scalp)) \div 1000,
                                    Min2(Max2(100, CashFraction(last_open_rec.cash)), last_open_rec.cash))
       /\ last_open_rec.size <= Max2(100, CashFraction(last_open_rec.cash))
       /\ last_open_rec.size > CashFraction(last_open_rec.cash) => last_open_rec.size = 100
C19_Witness ==
    /\ last_open_rec.market_id # ""
    /\ CashFraction(last_open_rec.cash) < 100
    /\ last_open_rec.size = 100

\* the OPEN event and the PARTIAL_CLOSE events of the position opened on market m at time t
OpenEvents(m, t) ==
    {i \in DOMAIN events :
        /\ events[i].type = "paper_trade" /\ events[i].action = "OPEN"
        /\ events[i].market_id = m /\ events[i].opened_at = t}
PartialEvents(m, t) ==
    {i \in DOMAIN events :
        /\ events[i].type = "paper_trade" /\ events[i].action = "PARTIAL_CLOSE"
        /\ events[i].market_id = m /\ events[i].opened_at = t}
\* notional and quantity of the position as they were when it was opened
NotionalAtOpen(m, t) == events[CHOOSE i \in OpenEvents(m, t) : TRUE].size_usd
QtyAtOpen(m, t) ==
    LET e == events[CHOOSE i \in OpenEvents(m, t) : TRUE]
    IN OpenQty(e.size_usd, e.price)
FullCloseDone ==
    /\ last_close_rec.kind = "close" /\ last_close_rec.fraction = 100
    /\ OpenEvents(last_close_rec.market_id, last_close_rec.opened_at) # {}

C21_OpenPrecondition ==
    ret.op = "open"
    => IF ret.price > 0 /\ 0 < ret.size /\ ret.size <= ret.cash_before
       THEN /\ ret.err = "" /\ state.cash_usd = ret.cash_before - ret.size
            /\ Len(state.positions) = ret.npos_before + 1
       ELSE /\ ret.err # "" /\ state.cash_usd = ret.cash_before
            /\ Len(state.positions) = ret.npos_before
\* C21 amended: an open with entry > 0, size > 0 and cash > 0 adds a position of notional
\* min(size, cash) and deducts that notional; any other open fails and changes nothing
C21_OpenClampsToCash ==
    ret.op = "open"
    => IF ret.price > 0 /\ ret.size > 0 /\ ret.cash_before > 0
       THEN /\ ret.err = "" /\ state.cash_usd = ret.cash_before - Min2(ret.size, ret.cash_before)
            /\ Len(state.positions) = ret.npos_before + 1
            /\ state.positions[Len(state.positions)].size_usd = Min2(ret.size, ret.cash_before)
       ELSE /\ ret.err = "invalid_open" /\ state.cash_usd = ret.cash_before
            /\ Len(state.positions) = ret.npos_before
C21_Witness ==
    /\ ret.op = "open" /\ ret.err = "" /\ ret.price > 0
    /\ ret.cash_before > 0 /\ ret.size > ret.cash_before
    /\ state.cash_usd = 0
    /\ state.positions[Len(state.positions)].size_usd = ret.cash_before

\* C22: a ledger call with a non-positive price, or an open with a non-positive size, returns an
\* error and leaves the whole ledger (cash, positions, closed positions, realized P&L) as it was
C22_InvalidCallChangesNothing ==
    [][(nops' = nops + 1 /\ (ret'.price <= 0 \/ (ret'.op = "open" /\ ret'.size <= 0)))
       => (ret'.err # "" /\ state' = state)]_vars
C22_Witness ==
    /\ ret.op = "close" /\ ret.err = "invalid_close" /\ ret.price <= 0
    /\ Len(state.positions) > 0 /\ state.positions[1].status = "open" /\ state.positions[1].qty > 0
    /\ state.cash_usd = ret.cash_before

\* the records a step appended to events.jsonl
NewEvents == {events'[i] : i \in (Len(events) + 1)..Len(events')}
\* a failed live submission among them
FailedSubmits == {e \in NewEvents : e.type = "live_trade" /\ ~e.ok}

\* C23: in live mode a row whose order submission (OPEN, CLOSE or partial close) returns ok=false
\* logs a live_trade event with ok=false and the error string, and a step that logs such an event
\* leaves the ledger (cash, open and closed positions, realized P&L, qty and notional) unchanged
C23_LiveFailureLeavesLedger ==
    [][/\ FailedSubmits # {}
          => /\ LedgerView(state') = LedgerView(state)
             /\ disk' = disk
             /\ \A e \in NewEvents : e.type = "live_trade" /\ e.error # ""
       /\ (last_row_rec' # last_row_rec /\ last_row_rec'.live_error # "")
          => \E e \in FailedSubmits : e.action = "OPEN_SUBMIT" /\ e.error = last_row_rec'.live_error
       /\ (last_close_rec' # last_close_rec /\ last_close_rec'.live_error # "")
          => \E e \in FailedSubmits : /\ e.action \in {"CLOSE_SUBMIT", "PARTIAL_CLOSE_SUBMIT"}
                                      /\ e.error = last_close_rec'.live_error]_vars
C23_Witness ==
    /\ cfg.live_enabled /\ last_close_rec.kind = "live_fail" /\ last_close_rec.fraction = 100
    /\ events # <<>> /\ events[Len(events)].type = "live_trade"
    /\ events[Len(events)].action = "CLOSE_SUBMIT" /\ ~events[Len(events)].ok
    /\ events[Len(events)].error = "post_order_failed"
    /\ OpenPosIdx(state, last_close_rec.market_id) # 0
    /\ state.positions[OpenPosIdx(state, last_close_rec.market_id)].qty = last_close_rec.qty_before

\* ------------------------------------------------ BookFeed, REST books and the cycle's rows
\* prices a book level, a best_bid_ask or a price_change can carry, in thousandths
BookPrices == {400, 600}
SetMax(S) == CHOOSE x \in S : \A y \in S : y <= x
SetMin(S) == CHOOSE x \in S : \A y \in S : x <= y
\* adapters/clob.py _best_bid / _best_ask and ws_hook.py:209-211: 0 for a side without levels
best_bid(levels) == IF levels = {} THEN 0 ELSE SetMax(levels)
best_ask(levels) == IF levels = {} THEN 0 ELSE SetMin(levels)
\* the books and quotes the venue sends: a side may be empty (0), the book is never crossed
Books == {b \in [bids : SUBSET BookPrices, asks : SUBSET BookPrices] :
            b.bids = {} \/ b.asks = {} \/ SetMax(b.bids) < SetMin(b.asks)}
Quotes == {q \in [bid : BookPrices \cup {0}, ask : BookPrices \cup {0}] :
            q.bid = 0 \/ q.ask = 0 \/ q.bid < q.ask}
\* the price_changes lists of a price_change message: one change, or one per asset
Changes == {[aid |-> a, bid |-> q.bid, ask |-> q.ask] : a \in Assets, q \in Quotes}
ChangeLists == {<<c>> : c \in Changes}
               \cup {<<c, d>> : c \in {x \in Changes : x.aid = "yes_token"},
                                d \in {x \in Changes : x.aid = "no_token"}}

\* ws_hook.py ClobWsHook._store: _best after a (bid, ask) for the asset
store(best, aid, bid, ask) ==
    IF aid = "" THEN best
    ELSE [best EXCEPT ![aid] = [bid |-> IF bid > 0 THEN bid ELSE @.bid,
                                ask |-> IF ask > 0 THEN ask ELSE @.ask]]
\* ws_hook.py:215-220: the changes of a price_change message, in order
RECURSIVE StoreAll(_, _)
StoreAll(best, changes) ==
    IF changes = <<>> THEN best
    ELSE StoreAll(store(best, Head(changes).aid, Head(changes).bid, Head(changes).ask), Tail(changes))
\* ws_hook.py ClobWsHook.get_best
get_best(best, aid) == best[aid]
\* main.py:715-735: the snapshot with the stored bid and ask of a token written over its own
override(s, side, b) ==
    IF side = "yes"
    THEN [s EXCEPT !.yes_bid = IF b.bid > 0 THEN b.bid ELSE @, !.yes_ask = IF b.ask > 0 THEN b.ask ELSE @]
    ELSE [s EXCEPT !.no_bid = IF b.bid > 0 THEN b.bid ELSE @, !.no_ask = IF b.ask > 0 THEN b.ask ELSE @]
\* the price a decision reads: the row of the cycle (main.py:1177-1187, 1406-1407)
row_price_live(row, best, field) ==
    LET b == best[IF field \in {"best_bid_yes", "best_ask_yes"} THEN "yes_token" ELSE "no_token"]
        v == IF field \in {"best_bid_yes", "best_bid_no"} THEN b.bid ELSE b.ask
    IN IF v > 0 THEN v ELSE row[field]
row_price(row, best, field) == row[field]

\* a message of the BookFeed worker thread; it can arrive at any point of the cycle
WsArrives(best) ==
    /\ nmsgs < MaxMsgs
    /\ ws_best' = best
    /\ nmsgs' = nmsgs + 1
    /\ late_msgs' = IF bpc = "rows" THEN late_msgs + 1 ELSE late_msgs
    /\ UNCHANGED <<snap, row_by_market, decided, bpc, nfetch>>
    /\ UNCHANGED <<baseVars, restVars, logVars, feedVars, loopVars>>
\* ws_hook.py:198-203
WsBestBidAsk == \E a \in Assets, q \in Quotes : WsArrives(store(ws_best, a, q.bid, q.ask))
\* ws_hook.py:205-213
WsBook == \E a \in Assets, b \in Books : WsArrives(store(ws_best, a, best_bid(b.bids), best_ask(b.asks)))
\* ws_hook.py:215-220
WsPriceChange == \E cs \in ChangeLists : WsArrives(StoreAll(ws_best, cs))

\* adapters/clob.py fetch_snapshots_from_refs for the market (main.py:710); at the prices of the
\* model the dead-book filter of clob.py:100 never applies
FetchSnapshots ==
    /\ bpc = "idle" /\ nfetch < MaxFetch
    /\ \E yes_book \in Books, no_book \in Books :
        LET s == [yes_bid |-> best_bid(yes_book.bids), yes_ask |-> best_ask(yes_book.asks),
                  no_bid |-> best_bid(no_book.bids), no_ask |-> best_ask(no_book.asks)]
        IN IF s.yes_ask <= 0 \/ s.no_ask <= 0
           THEN snap' = NoSnap /\ bpc' = "idle"
           ELSE snap' = s /\ bpc' = "fetched"
    /\ nfetch' = nfetch + 1
    /\ row_by_market' = NoRow
    /\ decided' = NoRow
    /\ late_msgs' = 0
    /\ UNCHANGED <<ws_best, nmsgs>>
    /\ UNCHANGED <<baseVars, restVars, logVars, feedVars, loopVars>>
\* main.py:715-722
OverrideYes ==
    /\ bpc = "fetched"
    /\ snap' = override(snap, "yes", get_best(ws_best, "yes_token"))
    /\ bpc' = "yes_done"
    /\ UNCHANGED <<ws_best, row_by_market, decided, nmsgs, nfetch, late_msgs>>
    /\ UNCHANGED <<baseVars, restVars, logVars, feedVars, loopVars>>
\* main.py:724-735
OverrideNo ==
    /\ bpc = "yes_done"
    /\ snap' = override(snap, "no", get_best(ws_best, "no_token"))
    /\ bpc' = "overridden"
    /\ UNCHANGED <<ws_best, row_by_market, decided, nmsgs, nfetch, late_msgs>>
    /\ UNCHANGED <<baseVars, restVars, logVars, feedVars, loopVars>>
\* main.py:837-862
BuildRows ==
    /\ bpc = "overridden"
    /\ row_by_market' = RowOf(snap)
    /\ bpc' = "rows"
    /\ UNCHANGED <<ws_best, snap, decided, nmsgs, nfetch, late_msgs>>
    /\ UNCHANGED <<baseVars, restVars, logVars, feedVars, loopVars>>
\* main.py:1177-1680: the open and close decisions read the prices of the row
Evaluate ==
    /\ bpc = "rows"
    /\ decided' = [f \in DOMAIN row_by_market |-> row_price(row_by_market, ws_best, f)]
    /\ bpc' = "done"
    /\ UNCHANGED <<ws_best, snap, row_by_market, nmsgs, nfetch, late_msgs>>
    /\ UNCHANGED <<baseVars, restVars, logVars, feedVars, loopVars>>
EndBookCycle ==
    /\ bpc = "done"
    /\ bpc' = "idle"
    /\ UNCHANGED <<ws_best, snap, row_by_market, decided, nmsgs, nfetch, late_msgs>>
    /\ UNCHANGED <<baseVars, restVars, logVars, feedVars, loopVars>>

BookNext == WsBestBidAsk \/ WsBook \/ WsPriceChange \/ FetchSnapshots \/ OverrideYes \/ OverrideNo
            \/ BuildRows \/ Evaluate \/ EndBookCycle
\* the ledger and the trade loop stay as LedgerInit leaves them
BookSpec == LedgerInit /\ [][BookNext]_vars

Ordered(bid, ask) == 0 <= bid /\ bid <= ask /\ ask <= 1000
\* C24 as stated: the snapshot a cycle uses after the BookFeed overrides has
\* 0 <= yes_bid <= yes_ask <= 1 and 0 <= no_bid <= no_ask <= 1
C24_SnapshotOrdered ==
    bpc \in {"overridden", "rows", "done"}
    => Ordered(snap.yes_bid, snap.yes_ask) /\ Ordered(snap.no_bid, snap.no_ask)
\* the snapshot as fetched, before the overrides, is ordered, and after the overrides every
\* price is within [0, 1] with both asks above 0
C24_RestSnapshotOrdered ==
    /\ bpc = "fetched" => Ordered(snap.yes_bid, snap.yes_ask) /\ Ordered(snap.no_bid, snap.no_ask)
    /\ bpc \in {"overridden", "rows", "done"}
       => /\ snap.yes_ask > 0 /\ snap.no_ask > 0
          /\ \A v \in {snap.yes_bid, snap.yes_ask, snap.no_bid, snap.no_ask} : 0 <= v /\ v <= 1000

\* C25: the decisions of a cycle read the prices the row got from the snapshot as it was after
\* the overrides, whatever BookFeed messages the worker handled since the rows were built
C25_DecisionsUseCycleRows ==
    /\ bpc \in {"rows", "done"} => row_by_market = RowOf(snap)
    /\ bpc = "done" => decided = RowOf(snap)
C25_Witness ==
    /\ bpc = "done" /\ late_msgs > 0
    /\ ws_best["yes_token"].ask > 0 /\ ws_best["yes_token"].ask # decided.best_ask_yes
    /\ ws_best["no_token"].bid > 0 /\ ws_best["no_token"].bid # decided.best_bid_no

\* ------------------------------------------------ the event log and its three writer threads
\* utils/storage.py append_event takes no lock and every call opens events.jsonl anew in append
\* mode; whether the line of one call reaches the file in one write or in several is left to
\* the file system and the size of the line
WriteOutcomes == {"whole", "split"}
Chunk(w, n, part) == [w |-> w, n |-> n, part |-> part]
\* utils/storage.py:26-27: the first write of the line of a call
append_event(w) ==
    /\ wpc[w] = "idle" /\ wn[w] < MaxAppends
    /\ wn' = [wn EXCEPT ![w] = @ + 1]
    /\ \E outcome \in WriteOutcomes :
        IF outcome = "whole"
        THEN log' = Append(log, Chunk(w, wn[w] + 1, "all")) /\ wpc' = wpc
        ELSE log' = Append(log, Chunk(w, wn[w] + 1, "head")) /\ wpc' = [wpc EXCEPT ![w] = "rest"]
    /\ UNCHANGED <<baseVars, restVars, bookVars, feedVars, loopVars>>
\* utils/storage.py:27: the rest of a line whose first write was short, up to the newline
write_rest(w) ==
    /\ wpc[w] = "rest"
    /\ log' = Append(log, Chunk(w, wn[w], "tail"))
    /\ wpc' = [wpc EXCEPT ![w] = "idle"]
    /\ UNCHANGED wn
    /\ UNCHANGED <<baseVars, restVars, bookVars, feedVars, loopVars>>

LogNext == \E w \in Writers : append_event(w) \/ write_rest(w)
LogSpec == LedgerInit /\ [][LogNext]_vars

\* every line of the file is one whole record: a write that is part of a record is next to
\* the other part of the same record (a first part at the very end is a line still being written)
CompleteRecords(l) ==
    \A i \in 1..Len(l) :
        \/ l[i].part = "all"
        \/ l[i].part = "head" /\ (i = Len(l) \/ l[i + 1] = Chunk(l[i].w, l[i].n, "tail"))
        \/ l[i].part = "tail" /\ i > 1 /\ l[i - 1] = Chunk(l[i].w, l[i].n, "head")
\* every call made so far has its record in the file, once
NoneLost(l) ==
    \A w \in Writers : \A n \in 1..wn[w] :
        Cardinality({i \in 1..Len(l) : l[i].w = w /\ l[i].n = n /\ l[i].part \in {"all", "head"}}) = 1
\* C26 as stated: under any interleaving of the three writers the event log is a sequence of
\* complete one-line records, none interleaved with or lost to another
C26_LogOfCompleteRecords == CompleteRecords(log) /\ NoneLost(log)
\* as long as every line reached the file in one write, the log holds every record once, whole,
\* and the records of one writer in the order of its calls
C26_WholeWritesSerialized ==
    (\A i \in 1..Len(log) : log[i].part = "all")
    => /\ CompleteRecords(log) /\ NoneLost(log)
       /\ \A i \in 1..Len(log), j \in 1..Len(log) : (i < j /\ log[i].w = log[j].w) => log[i].n < log[j].n

\* ------------------------------------------------ the stream workers and their reconnects
\* rtds_hook.py:46-59: the two subscriptions of sub_msg
SpotTopics == {"crypto_prices_chainlink", "crypto_prices"}
\* ws_hook.py:159, rtds_hook.py:70: the sleep after a stream error, tenths of a second
backoff_sleep(w) == IF w = "book" THEN 20 ELSE 10
\* ws_hook.py:161-175 with full = True, rtds_hook.py:64: what the subscription names
subscribe_payload(w, assets) == IF w = "book" THEN assets ELSE SpotTopics

\* the hook after subscribe_assets was called without setting the resubscription flag
subscribed_no_flag(assets) == [asset_ids |-> asset_ids \cup assets, needs_subscribe |-> needs_subscribe]

\* ws_hook.py:37-45: the asset set and the flag after subscribe_assets(assets)
subscribed(assets) ==
    [asset_ids |-> asset_ids \cup assets,
     needs_subscribe |-> needs_subscribe \/ ~(assets \subseteq asset_ids)]

\* ws_hook.py ClobWsHook.subscribe_assets, called by the cycle thread (main.py:676-677)
subscribe_assets ==
    /\ \E assets \in SUBSET Assets :
          /\ asset_ids' = subscribed(assets).asset_ids
          /\ needs_subscribe' = subscribed(assets).needs_subscribe
    /\ UNCHANGED <<fpc, sent, known, slept, handled, nfail, payload>>
    /\ UNCHANGED <<baseVars, restVars, bookVars, logVars, loopVars>>
\* ws_hook.py:148, rtds_hook.py:63: websockets.connect returns a connection
Connect(w) ==
    /\ fpc[w] = "connect"
    /\ fpc' = [fpc EXCEPT ![w] = "subscribe"]
    /\ known' = [known EXCEPT ![w] = IF w = "book" THEN asset_ids ELSE SpotTopics]
    /\ sent' = [sent EXCEPT ![w] = {}]
    /\ handled' = [handled EXCEPT ![w] = 0]
    /\ UNCHANGED <<asset_ids, slept, nfail, needs_subscribe, payload>>
    /\ UNCHANGED <<baseVars, restVars, bookVars, logVars, loopVars>>
\* rtds_hook.py:64: the subscription SpotFeed sends before its receive loop
SendSubscribe(w) ==
    /\ w = "spot" /\ fpc[w] = "subscribe"
    /\ sent' = [sent EXCEPT ![w] = subscribe_payload(w, asset_ids)]
    /\ fpc' = [fpc EXCEPT ![w] = "recv"]
    /\ UNCHANGED <<known, asset_ids, slept, handled, nfail, needs_subscribe, payload>>
    /\ UNCHANGED <<baseVars, restVars, bookVars, logVars, loopVars>>
\* ws_hook.py:162-164: _send_subscribe, called after the connect (149) or from the receive
\* loop (157), reads the assets and clears the flag under the lock
ReadAssets ==
    /\ fpc["book"] \in {"subscribe", "resubscribe"}
    /\ payload' = asset_ids
    /\ needs_subscribe' = FALSE
    /\ fpc' = [fpc EXCEPT !["book"] = "send"]
    /\ UNCHANGED <<sent, known, asset_ids, slept, handled, nfail>>
    /\ UNCHANGED <<baseVars, restVars, bookVars, logVars, loopVars>>
\* ws_hook.py:165-175: nothing is sent for no assets, otherwise the payload names all it read
SendPayload ==
    /\ fpc["book"] = "send"
    /\ sent' = [sent EXCEPT !["book"] = IF payload = {} THEN @ ELSE subscribe_payload("book", payload)]
    /\ payload' = {}
    /\ fpc' = [fpc EXCEPT !["book"] = "recv"]
    /\ UNCHANGED <<known, asset_ids, slept, handled, nfail, needs_subscribe>>
    /\ UNCHANGED <<baseVars, restVars, bookVars, logVars, loopVars>>
\* ws_hook.py:156, 177-181: after a receive or its timeout the worker takes the flag
TakeSubscribeFlag ==
    /\ fpc["book"] = "recv"
    /\ needs_subscribe' = FALSE
    /\ fpc' = [fpc EXCEPT !["book"] = IF needs_subscribe THEN "resubscribe" ELSE "recv"]
    /\ UNCHANGED <<sent, known, asset_ids, slept, handled, nfail, payload>>
    /\ UNCHANGED <<baseVars, restVars, bookVars, logVars, loopVars>>
\* ws_hook.py:152-153, rtds_hook.py:66-67: a message of the connection is handled
OnMessage(w) ==
    /\ fpc[w] = "recv" /\ handled[w] = 0
    /\ handled' = [handled EXCEPT ![w] = 1]
    /\ UNCHANGED <<fpc, sent, known, asset_ids, slept, nfail, needs_subscribe, payload>>
    /\ UNCHANGED <<baseVars, restVars, bookVars, logVars, loopVars>>
\* ws_hook.py:158, rtds_hook.py:69: connecting, sending or receiving raises
StreamError(w) ==
    /\ fpc[w] \in {"connect", "subscribe", "recv", "send", "resubscribe"} /\ nfail < MaxStreamErrors
    /\ fpc' = [fpc EXCEPT ![w] = "backoff"]
    /\ nfail' = nfail + 1
    /\ payload' = IF w = "book" THEN {} ELSE payload
    /\ UNCHANGED <<sent, known, asset_ids, slept, handled, needs_subscribe>>
    /\ UNCHANGED <<baseVars, restVars, bookVars, logVars, loopVars>>
\* ws_hook.py:159, rtds_hook.py:70: the sleep is over and the worker connects again
Backoff(w) ==
    /\ fpc[w] = "backoff"
    /\ slept' = [slept EXCEPT ![w] = backoff_sleep(w)]
    /\ fpc' = [fpc EXCEPT ![w] = "connect"]
    /\ UNCHANGED <<sent, known, asset_ids, handled, nfail, needs_subscribe, payload>>
    /\ UNCHANGED <<baseVars, restVars, bookVars, logVars, loopVars>>

BookWorker ==
    Connect("book") \/ ReadAssets \/ SendPayload \/ TakeSubscribeFlag \/ OnMessage("book") \/ Backoff("book")
FeedNext ==
    \/ subscribe_assets
    \/ ReadAssets \/ SendPayload \/ TakeSubscribeFlag
    \/ \E w \in Workers : Connect(w) \/ SendSubscribe(w) \/ OnMessage(w) \/ StreamError(w) \/ Backoff(w)
FeedSpec == LedgerInit /\ [][FeedNext]_vars
\* the worker thread keeps running: _run_async loops for as long as the hook is alive, and a
\* receive returns after at most its 5 s timeout
FeedLiveSpec == FeedSpec /\ WF_vars(BookWorker)

\* a message of a connection is handled only after the subscription with everything subscribed
\* when the connection was made
SubscribedBeforeMessages == \A w \in Workers : (fpc[w] = "recv" \/ handled[w] > 0) => known[w] \subseteq sent[w]
\* C27 as stated: after a stream error each of the two workers waits at least 2 s before it
\* reconnects, and sends its full subscription before it handles a message of the new connection
C27_BackoffTwoSeconds ==
    /\ \A w \in Workers : slept[w] # 0 => slept[w] >= 20
    /\ SubscribedBeforeMessages
\* BookFeed waits at least 2 s and SpotFeed at least 1 s, and both subscribe before handling
C27_BackoffPerWorker ==
    /\ slept["book"] # 0 => slept["book"] >= 20
    /\ slept["spot"] # 0 => slept["spot"] >= 10
    /\ SubscribedBeforeMessages
C27_Witness ==
    /\ \A w \in Workers : slept[w] # 0 /\ handled[w] > 0
    /\ sent["book"] = Assets

\* ------------------------------------------------ the scheduler loop of run_forever
\* the lengths of a run_once call, tenths of a second: shorter than, equal to and longer than
\* min_cycle_seconds
Durations == 0..MaxDuration
\* loop.py:33-35: the sleep that fills the cycle up to min_cycle_seconds
pace_sleep_none(elapsed) == 0
pace_sleep(elapsed) == IF elapsed < MinCycle THEN MinCycle - elapsed ELSE 0

\* loop.py:9-17
LoadConfig ==
    /\ lpc = "init"
    /\ \E ed \in BOOLEAN : event_driven' = ed
    /\ lpc' = "start"
    /\ UNCHANGED <<now, cycle_start, prev_start, ncyc, loop_errors, raised, last_ws_ts, last_msg_ts, unserved>>
    /\ UNCHANGED <<baseVars, restVars, bookVars, logVars, feedVars>>
\* loop.py:19-20
LoopStart ==
    /\ lpc = "start" /\ ncyc < MaxLoopCycles
    /\ prev_start' = IF ncyc = 0 THEN -1 ELSE cycle_start
    /\ cycle_start' = now
    /\ ncyc' = ncyc + 1
    /\ raised' = FALSE
    /\ lpc' = "running"
    /\ unserved' = FALSE
    /\ UNCHANGED <<now, loop_errors, event_driven, last_ws_ts, last_msg_ts>>
    /\ UNCHANGED <<baseVars, restVars, bookVars, logVars, feedVars>>
\* loop.py:21-28: run_once returns
RunOnceReturns ==
    /\ lpc = "running"
    /\ \E d \in Durations : now' = now + d
    /\ last_ws_ts' = Max2(last_ws_ts, last_msg_ts)
    /\ lpc' = "pace"
    /\ UNCHANGED <<cycle_start, prev_start, ncyc, loop_errors, event_driven, raised, last_msg_ts, unserved>>
    /\ UNCHANGED <<baseVars, restVars, bookVars, logVars, feedVars>>
\* loop.py:29-31: run_once raises; the handler appends loop_error with append_event, outside any
\* try, so an events file that cannot be written raises out of run_forever
RunOnceRaises ==
    /\ lpc = "running"
    /\ \E d \in Durations : now' = now + d
    /\ raised' = TRUE
    /\ \E writable \in BOOLEAN :
        IF writable
        THEN loop_errors' = loop_errors + 1 /\ lpc' = "pace"
        ELSE loop_errors' = loop_errors /\ lpc' = "dead"
    /\ UNCHANGED <<cycle_start, prev_start, ncyc, event_driven, last_ws_ts, last_msg_ts, unserved>>
    /\ UNCHANGED <<baseVars, restVars, bookVars, logVars, feedVars>>
\* loop.py:33-37
Pace ==
    /\ lpc = "pace"
    /\ now' = now + pace_sleep(now - cycle_start)
    /\ lpc' = IF event_driven THEN "wait" ELSE "sleep"
    /\ UNCHANGED <<cycle_start, prev_start, ncyc, loop_errors, event_driven, raised,
                   last_ws_ts, last_msg_ts, unserved>>
    /\ UNCHANGED <<baseVars, restVars, bookVars, logVars, feedVars>>
\* loop.py:38-40, ws_hook.py:90-95: returns at once when a message came since last_ws_ts,
\* otherwise when one comes or after the timeout
WaitForUpdate ==
    /\ lpc = "wait"
    /\ IF last_msg_ts > last_ws_ts
       THEN \* ws_hook.py:92-93
            now' = now /\ last_msg_ts' = last_msg_ts /\ unserved' = unserved
       ELSE \* ws_hook.py:94-95: blocked until _on_message notifies or the timeout passes
            \/ /\ last_msg_ts < MaxLoopMsgs
               /\ \E w \in 0..(LoopSeconds - 1) : now' = now + w
               /\ last_msg_ts' = last_msg_ts + 1
               /\ unserved' = TRUE
            \/ now' = now + LoopSeconds /\ last_msg_ts' = last_msg_ts /\ unserved' = unserved
    /\ last_ws_ts' = last_msg_ts'
    /\ lpc' = "start"
    /\ UNCHANGED <<cycle_start, prev_start, ncyc, loop_errors, event_driven, raised>>
    /\ UNCHANGED <<baseVars, restVars, bookVars, logVars, feedVars>>
\* loop.py:41-42: the wait raises and the loop falls through to the interval sleep
WaitRaises ==
    /\ lpc = "wait"
    /\ lpc' = "sleep"
    /\ UNCHANGED <<now, cycle_start, prev_start, ncyc, loop_errors, event_driven, raised,
                   last_ws_ts, last_msg_ts, unserved>>
    /\ UNCHANGED <<baseVars, restVars, bookVars, logVars, feedVars>>
\* loop.py:44
SleepInterval ==
    /\ lpc = "sleep"
    /\ now' = now + LoopSeconds
    /\ lpc' = "start"
    /\ UNCHANGED <<cycle_start, prev_start, ncyc, loop_errors, event_driven, raised,
                   last_ws_ts, last_msg_ts, unserved>>
    /\ UNCHANGED <<baseVars, restVars, bookVars, logVars, feedVars>>
\* ws_hook.py:183-191: the BookFeed thread handles a message while the scheduler is anywhere
\* in its loop but blocked in the wait (WaitForUpdate covers the wake-up)
OnBookMessage ==
    /\ event_driven /\ lpc \in {"start", "running", "pace", "wait"}
    /\ last_msg_ts < MaxLoopMsgs
    /\ last_msg_ts' = last_msg_ts + 1
    /\ unserved' = (lpc # "start")
    /\ UNCHANGED <<lpc, now, cycle_start, prev_start, ncyc, loop_errors, event_driven, raised, last_ws_ts>>
    /\ UNCHANGED <<baseVars, restVars, bookVars, logVars, feedVars>>

LoopNext == LoadConfig \/ LoopStart \/ RunOnceReturns \/ RunOnceRaises \/ Pace \/ WaitForUpdate
            \/ WaitRaises \/ SleepInterval \/ OnBookMessage
LoopSpec == LedgerInit /\ [][LoopNext]_vars

\* C28 as stated: no exception of a cycle ends the scheduler loop
C28_LoopNeverDies == lpc # "dead"
\* an exception of run_once whose loop_error record could be written is logged once and the
\* scheduler goes on to pace the next cycle
C28_LoggedErrorContinues ==
    [][(lpc = "running" /\ raised' /\ lpc' # "dead") => (loop_errors' = loop_errors + 1 /\ lpc' = "pace")]_vars

\* C29: in both scheduler modes the starts of two consecutive cycles are at least
\* min_cycle_seconds apart, also when a book update is already there when the cycle ends and
\* when the cycle ended with an exception
C29_MinCycleApart == (lpc # "init" /\ prev_start >= 0) => cycle_start - prev_start >= MinCycle
C29_Witness ==
    /\ lpc = "running" /\ ncyc = 2 /\ event_driven /\ loop_errors = 1
    /\ cycle_start - prev_start = MinCycle

\* ------------------------------------------------ one close per position
\* the paper_trade CLOSE events of the log, by place in the log
CloseEvents == {i \in DOMAIN events : events[i].type = "paper_trade" /\ events[i].action = "CLOSE"}
SamePosition(e, f) == e.market_id = f.market_id /\ e.opened_at = f.opened_at /\ e.side = f.side
C32_LedgerBalance ==
    /\ state.cash_usd + SumSize(state.positions) = StartingCash + state.realized_pnl_usd
    /\ state.cash_usd >= 0
C32_Witness ==
    /\ ret.op = "close" /\ ret.err = "" /\ ret.pnl < 0
    /\ state.positions # <<>> /\ state.closed_positions # <<>>
    /\ state.cash_usd < StartingCash

\* ------------------------------------------------ edge_peak of an open position
\* the open positions of the cycle whose edge_peak has been set (at the open or by the close policy)
PeakSet == {i \in DOMAIN state.positions : state.positions[i].status = "open" /\ state.positions[i].edge_peak # None}
Repriced ==
    /\ last_close_rec.kind = "pending"
    /\ last_close_rec.pending_before.attempts > 0
    /\ last_close_rec.pending_now.attempts # last_close_rec.pending_before.attempts
GuardReasons == {"edge_flip_wrong_way", "tp_50", "flip_stop", "time_stop"}
GuardPnls == {-100, 0, 100}

\* main.py:1536-1539, 1547-1654: what a full close leaves in the process's memory
FullCloseBookkeeping ==
    /\ ncycles < MaxCloses
    /\ \E m \in Markets, reason \in GuardReasons, pnl \in GuardPnls :
          /\ last_close' = [last_close EXCEPT ![m] = [ts |-> clock, reason |-> reason, side |-> "BUY_YES", pnl |-> pnl]]
          /\ flip_fail_streak' = [flip_fail_streak EXCEPT ![m] = streak_after(m, reason, pnl)]
          /\ market_lock_until' = [market_lock_until EXCEPT ![m] = lock_after(m, reason, pnl)]
          /\ recent_flip_stop_loss_ts' = recent_after(reason, pnl)
          /\ global_open_pause_until' = pause_after(reason, pnl)
          /\ last_close_rec' = [NoCloseRec EXCEPT !.market_id = m, !.kind = "close", !.reason = reason,
                                                  !.fraction = 100, !.pnl = pnl, !.at = clock,
                                                  !.side = "BUY_YES",
                                                  !.streak_before = flip_fail_streak[m],
                                                  !.lock_before = market_lock_until[m],
                                                  !.pause_before = global_open_pause_until]
    /\ clock' = clock + GuardStep
    /\ ncycles' = ncycles + 1
    /\ UNCHANGED <<state, ret, nops, closeLoss, edge_hist, winner_hist, pending_closes, model_stats,
                   disk, events, cfg, attrs, feed, pc, todo, open_map, impulse, nerrors, nrestarts,
                   last_open_rec, lifetime, last_row_rec, auxVars>>

\* main.py:1540-1547: a partial close skips the block under close_frac >= 1.0
PartialCloseBookkeeping ==
    /\ ncycles < MaxCloses
    /\ \E m \in Markets, pnl \in GuardPnls :
          last_close_rec' = [NoCloseRec EXCEPT !.market_id = m, !.kind = "partial", !.reason = "tp_35_half",
                                               !.fraction = 50, !.pnl = pnl, !.at = clock,
                                               !.side = "BUY_YES",
                                               !.streak_before = flip_fail_streak[m],
                                               !.lock_before = market_lock_until[m],
                                               !.pause_before = global_open_pause_until]
    /\ clock' = clock + GuardStep
    /\ ncycles' = ncycles + 1
    /\ UNCHANGED <<state, ret, nops, closeLoss, memVars,
                   disk, events, cfg, attrs, feed, pc, todo, open_map, impulse, nerrors, nrestarts,
                   last_open_rec, lifetime, last_row_rec, auxVars>>

GuardNext == FullCloseBookkeeping \/ PartialCloseBookkeeping
GuardInit == Init /\ feed \in {"wrong_way", "no_lock", "trend"}
GuardSpec == GuardInit /\ [][GuardNext]_vars

\* the close reasons the streak update counts as a win when the pnl is positive
WinningReasons == {"edge_trailing_stop", "tp_50", "tp_35_half", "time_lt_90s_bank", "resolved_win_proxy"}

\* the lockout a streak of two or more asks for, in seconds
StreakLock(streak) == Min2(900, 300 + (streak - 2) * 180)

C37_FlippedWitness ==
    /\ last_open_rec.market_id # "" /\ ~last_open_rec.scalp
    /\ last_open_rec.side # last_open_rec.winner

\* ---------------------------------------------------------------------------------------------
\* The forecast: _model_compare on component probabilities and weights (thousandths)
\* ---------------------------------------------------------------------------------------------
Components == {"TA", "LL", "RG", "BK", "ANCHOR", "MC_CLOSE"}
\* the order Python gives the component names: the tie-break of scored.sort(reverse=True)
NameRank == [ANCHOR |-> 1, BK |-> 2, LL |-> 3, MC_CLOSE |-> 4, RG |-> 5, TA |-> 6]
ProbValues == {300, 500, 900}
\* main.py:385-392: _model_weight stays within [0.7, 1.3]
LearnedWeights == {700, 1300}
TimeLeft == {1, 900}
\* main.py:484-485
w_anchor(tl) == Max2(700, Min2(2200, 1900 - (Min2(tl, 900) * 1000) \div 900))
w_mc(tl) == Max2(800, Min2(2400, 2000 - (Min2(tl, 900) * 1000) \div 900))

\* Python's round() of n / d for n >= 0: to the nearest integer, a half to the even one
RoundHalfEven(n, d) ==
    LET q == n \div d
        r == n % d
    IN IF 2 * r < d THEN q
       ELSE IF 2 * r > d THEN q + 1
       ELSE IF q % 2 = 0 THEN q ELSE q + 1

\* main.py:488-489: the sums over the six components
WeightSum(weights) ==
    weights["TA"] + weights["LL"] + weights["RG"] + weights["BK"] + weights["ANCHOR"] + weights["MC_CLOSE"]
WeightedSum(probs, weights) ==
    probs["TA"] * weights["TA"] + probs["LL"] * weights["LL"] + probs["RG"] * weights["RG"]
    + probs["BK"] * weights["BK"] + probs["ANCHOR"] * weights["ANCHOR"] + probs["MC_CLOSE"] * weights["MC_CLOSE"]

direction(p) == IF p >= 500 THEN "BUY_YES" ELSE "BUY_NO"
strength(p) == Abs(2 * p - 1000)

\* the side of the forecast taken from the ensemble probability instead of the best component
forecast_side_of_ensemble(probs, weights, best) ==
    IF WeightedSum(probs, weights) >= 500 * WeightSum(weights)
    THEN "BUY_YES" ELSE "BUY_NO"

\* main.py:499-500: the direction of the first of the sorted scores
forecast_side(probs, weights, best) == direction(probs[best])

\* main.py:430-514
model_compare(probs, weights) ==
    LET wsum == WeightSum(weights)
        num == WeightedSum(probs, weights)
        score(k) == strength(probs[k]) * weights[k]
        best == CHOOSE k \in Components :
                    \A j \in Components \ {k} :
                        \/ score(k) > score(j)
                        \/ score(k) = score(j) /\ NameRank[k] > NameRank[j]
        side == forecast_side(probs, weights, best)
        n_agree == Cardinality({k \in Components : direction(probs[k]) = side})
    IN [probs |-> probs, weights |-> weights, p_yes_num |-> num, p_yes_den |-> wsum,
        best |-> best, side |-> side,
        confidence |-> Max2(1, Min2(99, RoundHalfEven(180 * strength(probs[best]) + 20000 * n_agree, 3000))),
        consensus |-> n_agree]

\* main.py:976-985: a row is forecast (one call, on any of the inputs)
Forecast ==
    /\ forecast = NoForecast
    /\ \E probs \in [Components -> ProbValues], tl \in TimeLeft,
          learned \in [{"TA", "LL", "RG", "BK"} -> LearnedWeights] :
          forecast' = model_compare(probs, [k \in Components |->
                                               IF k = "ANCHOR" THEN w_anchor(tl)
                                               ELSE IF k = "MC_CLOSE" THEN w_mc(tl)
                                               ELSE learned[k]])
    /\ UNCHANGED <<baseVars, monitorVars, bookVars, logVars, feedVars, loopVars>>

ForecastNext == Forecast
ForecastSpec == LedgerInit /\ [][ForecastNext]_vars

\* the components on a side
OnSide(f, side) == {k \in Components : direction(f.probs[k]) = side}

\* C40 (as stated): predicted_side is BUY_YES if and only if p_yes_ensemble >= 0.5 (and BUY_NO
\* otherwise), for every combination of component probabilities and weights; consensus counts
\* the components on the predicted side
C40_SideOfEnsemble ==
    forecast # NoForecast =>
        /\ forecast.side = "BUY_YES" <=> forecast.p_yes_num >= 500 * forecast.p_yes_den
        /\ forecast.side \in {"BUY_YES", "BUY_NO"}
        /\ forecast.consensus = Cardinality(OnSide(forecast, forecast.side))

\* C40 (amended): predicted_side is BUY_YES if and only if the probability of best_component,
\* the component with the largest strength times weight, is >= 0.5; consensus counts the
\* components on the predicted side
C40_SideOfBestComponent ==
    forecast # NoForecast =>
        /\ \A k \in Components :
              strength(forecast.probs[forecast.best]) * forecast.weights[forecast.best]
                  >= strength(forecast.probs[k]) * forecast.weights[k]
        /\ forecast.side = "BUY_YES" <=> forecast.probs[forecast.best] >= 500
        /\ forecast.side \in {"BUY_YES", "BUY_NO"}
        /\ forecast.consensus = Cardinality(OnSide(forecast, forecast.side))
        /\ forecast.consensus \in 1..6
\* a forecast whose side is BUY_YES with an ensemble probability below 0.5
C40_Witness ==
    /\ forecast # NoForecast
    /\ forecast.side = "BUY_YES" /\ forecast.p_yes_num < 500 * forecast.p_yes_den
    /\ forecast.consensus = 1

\* C38 (as stated): in event-driven mode a message handled since the latest cycle started is
\* followed by a cycle without waiting for the loop_seconds timeout, whether it arrived while
\* the cycle was running or after it
C38_MessageWakesScheduler ==
    [][(lpc = "wait" /\ unserved /\ lpc' = "start") => now' - now < LoopSeconds]_vars
\* C38 (the part the code keeps): wait_for_update does not block when a message newer than
\* after_ts has already been handled
C38_WaitReturnsOnNewerMessage ==
    [][(lpc = "wait" /\ last_msg_ts > last_ws_ts /\ lpc' = "start") => now' = now]_vars
\* the scheduler is about to wait although a message came while its cycle ran: the cycle's end
\* marked the message as seen
C38_Witness ==
    /\ lpc = "wait" /\ event_driven /\ unserved /\ ~raised
    /\ last_msg_ts > 0 /\ last_ws_ts = last_msg_ts

\* subscribe_assets on assets that are all known changes neither the asset set nor the flag
Idempotent ==
    \A assets \in SUBSET asset_ids :
        subscribed(assets) = [asset_ids |-> asset_ids, needs_subscribe |-> needs_subscribe]
\* an asset of the set is in a payload sent on the current connection, or the flag is set, or
\* the worker is on its way to a subscription that names it
NoAssetForgotten ==
    \A a \in asset_ids :
        \/ a \in sent["book"]
        \/ needs_subscribe
        \/ fpc["book"] \in {"backoff", "connect", "subscribe", "resubscribe"}
        \/ fpc["book"] = "send" /\ a \in payload
\* C39: subscribe_assets is idempotent, and under any interleaving of subscribe_assets with
\* _take_subscribe_flag and _send_subscribe no asset is in the set with the flag cleared and
\* not sent, and every asset added is eventually in a payload sent on a live connection
C39_EveryAssetSent ==
    /\ [](Idempotent /\ NoAssetForgotten)
    /\ \A a \in Assets : (a \in asset_ids) ~> (fpc["book"] = "recv" /\ a \in sent["book"])
\* an asset added while the worker was in its receive loop was sent by a resubscription
C39_Witness ==
    /\ fpc["book"] = "recv" /\ sent["book"] = Assets /\ known["book"] # Assets
    /\ ~needs_subscribe

\* ---------------------------------------------------------------------------------------------
\* One market followed over its life, cycle after cycle without end: whether the position
\* opened on it is closed. Time is the phase of the clock against the market's end; what a
\* cycle finds (the discovered markets, the book, the decision of the close policy) is input.
\* ---------------------------------------------------------------------------------------------
\* what discovery and the books give the selection of btc_rows in a cycle: how many live 15m
\* markets end before the followed one, whether a live 5m market is listed, how many other
\* live markets there are, and whether the fallback sort puts the followed market first
Selections == [earlier15 : {0, 3, 4}, has5 : BOOLEAN, others : {3, 4}, first : BOOLEAN]
\* what the row of the market gives the trade loop: a known target, an ask and a bid on the
\* held side, and what the close policy and the limit close come to
RowFeeds == [target : BOOLEAN, ask : BOOLEAN, bid : BOOLEAN, open_ok : BOOLEAN,
             act : {"hold", "limit_wait", "limit_fill", "limit_timeout", "force"}]

\* main.py:864-914: the followed market (a 15m market) is one of btc_rows
in_btc_rows(sel) ==
    IF mon_phase # "ended"
    THEN \* a candidate: one of the first three 15m rows, or the fill of the fourth slot
         sel.earlier15 < 3 \/ (sel.earlier15 = 3 /\ ~sel.has5)
    ELSE \* main.py:877: not a candidate; the fallback takes it when live rows leave a slot
         sel.others < 4 /\ sel.first

\* main.py:1406-1534 for an open position in a row with a target
manage(row) ==
    IF ~row.ask THEN [pos |-> "open", pending |-> mon_pending, fate |-> "no_mark"]
    ELSE IF row.act = "hold" THEN [pos |-> "open", pending |-> mon_pending, fate |-> "hold"]
    ELSE IF row.act = "force" \/ row.act = "limit_timeout"
         THEN \* main.py:106-108, 132-134: the entry is dropped, the exit is the taker price
              IF row.bid THEN [pos |-> "closed", pending |-> 0, fate |-> "closed"]
              ELSE [pos |-> "open", pending |-> 0, fate |-> "no_price"]
    ELSE IF row.act = "limit_fill" THEN [pos |-> "closed", pending |-> 0, fate |-> "closed"]
    ELSE [pos |-> "open", pending |-> mon_pending + 1, fate |-> "pending"]

\* the inputs a pass over the row can meet
row_possible(row) ==
    \* within 45 s of the end every rule left is a full close (main.py:1461)
    /\ row.act = "hold" => mon_phase = "early"
    \* main.py:127: a limit fill needs a bid at the limit
    /\ row.act = "limit_fill" => row.bid
    \* main.py:131: the timeout is that of an entry made by an earlier pass, and it comes
    \* after close_limit_timeout_s: an entry waits for a bounded number of passes
    /\ row.act = "limit_timeout" => mon_pending > 0
    /\ row.act = "limit_wait" => mon_pending < MaxPendingPasses
    \* main.py:939-949: the target of a market that was traded stays known
    /\ mon_pos = "open" => row.target

\* run_once for the followed market: selection of btc_rows, then the trade loop's pass
MonitorCycle ==
    /\ \E sel \in Selections, row \in RowFeeds :
          /\ row_possible(row)
          /\ LET out == IF ~in_btc_rows(sel)
                        THEN [pos |-> mon_pos, pending |-> mon_pending, fate |-> "absent"]
                        ELSE IF ~row.target
                        THEN [pos |-> mon_pos, pending |-> mon_pending, fate |-> "no_target"]
                        ELSE IF mon_pos = "open" THEN manage(row)
                        ELSE IF row.open_ok /\ row.ask
                        THEN [pos |-> "open", pending |-> mon_pending, fate |-> "opened"]
                        ELSE [pos |-> mon_pos, pending |-> mon_pending, fate |-> "idle"]
             IN /\ mon_pos' = out.pos
                /\ mon_pending' = out.pending
                /\ mon_fate' = out.fate
    /\ mon_seen' = TRUE
    /\ mon_cycle' = 1 - mon_cycle
    /\ UNCHANGED mon_phase
    /\ UNCHANGED <<baseVars, forecastVars, bookVars, logVars, feedVars, loopVars>>

\* the clock passes into the market's last 45 s, then past its end; with no position open a
\* market past its end is left for the next of the rolling series. At least one cycle runs in
\* every phase.
MonitorTick ==
    /\ mon_seen
    /\ \/ mon_phase = "early" /\ mon_phase' = "last45" /\ UNCHANGED <<mon_pos, mon_pending>>
       \/ mon_phase = "last45" /\ mon_phase' = "ended" /\ UNCHANGED <<mon_pos, mon_pending>>
       \/ /\ mon_phase = "ended" /\ mon_pos # "open"
          /\ mon_phase' = "early" /\ mon_pos' = "none" /\ mon_pending' = 0
    /\ mon_seen' = FALSE
    /\ UNCHANGED <<mon_cycle, mon_fate>>
    /\ UNCHANGED <<baseVars, forecastVars, bookVars, logVars, feedVars, loopVars>>

MonitorNext == MonitorCycle \/ MonitorTick
\* cycles keep running and time passes
MonitorSpec == LedgerInit /\ [][MonitorNext]_vars /\ WF_vars(MonitorCycle) /\ WF_vars(MonitorTick)

====
